---- MODULE Spec2Model ----
(***************************************************************************)
(* Verification model of deepsage-ai/ai-body.                              *)
(*                                                                         *)
(* Part 1 (SpecMCP): SessionMCPManager, the call-cache variant of          *)
(* examples/streaming-mcp-chat/main.go: connection reuse inside a          *)
(* 2-minute window, liveness probe, teardown/rebuild, call de-duplication. *)
(*                                                                         *)
(* Part 2 (SpecTask): TaskCacheManager and the BotHandler that polls it,   *)
(* examples/agent-wework/internal/bot/handler.go: one background worker    *)
(* per task appends the agent's stream to the task, polls read it.         *)
(*                                                                         *)
(* Part 3 (SpecStream): StreamManager (internal/wework/stream.go) and the  *)
(* BotHandler variant that publishes the agent's stream through it.        *)
(*                                                                         *)
(* Part 4 (SpecHealth, SpecHealthFair): MCPHealthManager and               *)
(* ResilientMCPServer (examples/streaming-mcp-chat/main.go): the health    *)
(* check loop, the reconnect loops and the callers that wait for them.     *)
(*                                                                         *)
(* Further parts: SpecNoCache (SessionMCPManager without call cache),      *)
(* SpecHook and SpecFullCache (WebhookHandler: request verification and    *)
(* message de-duplication), SpecBuffer (StreamBuffer), SpecLocks           *)
(* (StreamManager's mutexes), SpecLogger (ChatLogger) and SpecLazy         *)
(* (LazyMCPServer).                                                        *)
(***************************************************************************)
EXTENDS Integers, Sequences, FiniteSets, TLC

VARIABLES
    mgr,        \* SessionMCPManager fields + the connection objects it made
    call,       \* per goroutine: the manager operation it is executing
    linkOk,     \* environment: ListTools on the stored connection would succeed
    nextResp,   \* next fresh *MCPToolResponse object
    tasks,      \* the TaskInfo objects, by stream id
    registry,   \* keys of TaskCacheManager.tasks
    nextTask,   \* next stream id generateTaskID hands out
    worker,     \* per task: position of its processTaskAsync goroutine
    poller,     \* per webhook request goroutine: position in the handler
    resp,       \* per stream id: the latest stream response returned for it
    streams,    \* the StreamState objects, by stream id
    streamMap,  \* keys of StreamManager.streams
    nextStream, \* next stream id generateStreamID hands out
    sworker,    \* per stream: the goroutine HandleMessage started for it
    refresher,  \* per webhook request goroutine: position in HandleStreamRefresh
    sresp,      \* per stream id: the latest stream response returned for it
    hm,         \* the MCPHealthManager
    loops,      \* the reconnectLoop goroutines
    hcLoop,     \* position of the healthCheckLoop goroutine
    rcall,      \* per caller goroutine: its call through ResilientMCPServer
    msgCache,   \* WebhookHandler.msgCache: message id -> age of its entry
    post,       \* per POST request goroutine: position in handleMessage
    dispatched, \* per message id: calls of the MessageHandler made for it
    sb,         \* a StreamBuffer: chunks, cursor, producerDone
    pushed,     \* the texts given to Push so far, concatenated
    readOut,    \* the texts ReadIncrement returned so far, concatenated
    smLock,     \* StreamManager.mutex
    stLock,     \* per stream: StreamState.mutex
    lmap,       \* keys of StreamManager.streams, in the lock model
    lactive,    \* per stream: StreamState.IsActive, in the lock model
    nextL,      \* next stream id CreateStream hands out, in the lock model
    lt,         \* per goroutine: its position inside a StreamManager method
    logQueue,   \* ChatLogger.logQueue: the buffered entries, oldest first
    queueClosed, \* logQueue has been closed
    shutdownCh, \* ChatLogger.shutdownCh has been closed
    totalLogged, \* ChatLogger.totalLogged
    totalDropped, \* ChatLogger.totalDropped
    completed,  \* LogMessage calls that have returned
    accepted,   \* the entries sent on logQueue, in the order of the sends
    written,    \* the lines in the conversation's writer, in order
    lw,         \* the processLogs goroutine
    maint,      \* position of the maintenance goroutine
    closer,     \* the goroutine calling Close
    lg,         \* per goroutine calling LogMessage: its position
    nextEntry,  \* next LogEntry handed to LogMessage
    lazy,       \* per goroutine: its call through LazyMCPServer
    lzOpen,     \* the connections LazyMCPServer opened and has not closed
    lzOpened,   \* connections LazyMCPServer has opened
    lzClosed    \* connections LazyMCPServer has closed

mcpVars == <<mgr, call, linkOk, nextResp>>
taskVars == <<tasks, registry, nextTask, worker, poller, resp>>

streamVars == <<streams, streamMap, nextStream, sworker, refresher, sresp>>

healthVars == <<hm, loops, hcLoop, rcall>>

hookVars == <<msgCache, post, dispatched>>

bufVars == <<sb, pushed, readOut>>

lockVars == <<smLock, stLock, lmap, lactive, nextL, lt>>

lazyVars == <<lazy, lzOpen, lzOpened, lzClosed>>

logVars == <<logQueue, queueClosed, shutdownCh, totalLogged, totalDropped, completed,
             accepted, written, lw, maint, closer, lg, nextEntry>>

vars == <<mcpVars, taskVars, streamVars, healthVars, hookVars, bufVars, lockVars, logVars, lazyVars>>

-----------------------------------------------------------------------------
(* Bounds of the model *)
NumProcs == 2      \* goroutines calling into one manager
NumArgs  == 1      \* distinct argument payloads of the one tool
MaxConns == 2      \* connections mcp.NewHTTPServer may hand out
MaxResp  == 2      \* responses the tool server may produce
MaxTasks == 1      \* tasks Invoke may create
NumPollers == 1    \* webhook request goroutines
MaxEvents == 2     \* events with content that one agent stream delivers
NumChunks == 2     \* distinct non-empty event contents
MaxStreams == 1    \* streams CreateStream may create
NumCallers == 2    \* goroutines calling through ResilientMCPServer
MaxLoops == 2      \* reconnectLoop goroutines alive at once
MaxServers == 2    \* MCP server handles alive at once
NumPosts == 2      \* POST request goroutines of the webhook
NumMsgIds == 2     \* distinct MsgID values that arrive
MaxPush == 3       \* texts pushed into one StreamBuffer
NumLockThreads == 3  \* goroutines inside StreamManager methods
NumLockStreams == 2  \* streams CreateStream makes in the lock model
NumExtra == 3      \* message ids beyond cacheSize that recordMessage is given
NumOld == 2        \* entries older than an hour in the initial full cache
NumLoggers == 2    \* goroutines calling LogMessage
MaxEntries == 3    \* entries given to LogMessage
QueueCap == 2      \* capacity of logQueue (queueSize, 10000 in NewChatLogger)
BatchCap == 2      \* entries that trigger a flush (batchSize, 100 in NewChatLogger)
NumLazyCallers == 2 \* goroutines calling LazyMCPServer
MaxLazyConns == 3  \* connections opened through LazyMCPServer

(* Program constant: time.Since(s.lastActivity) > 2*time.Minute, in minutes *)
ReuseWindow == 2

Procs   == 1..NumProcs
ToolNames == {"lookup"}
ArgVals == 1..NumArgs
NoConn  == 0       \* s.connection == nil / a nil server with an error
NoResp  == 0       \* no cache entry / nil response

(* generateCallID: hex of "name:argsJSON"; injective in (name, args) *)
generateCallID(name, args) == <<name, args>>

CallIDs == {generateCallID(n, a) : n \in ToolNames, a \in ArgVals}

EmptyCache == [id \in CallIDs |-> NoResp]

-----------------------------------------------------------------------------
(* SessionMCPManager, as functions on the manager state *)

NewSessionMCPManager ==
    [connection |-> NoConn, sessionActive |-> FALSE,
     sinceActivity |-> 0,   \* time.Since(s.lastActivity), minutes, saturating
     callCache |-> EmptyCache,
     created |-> 0,      \* connections handed out so far: ids 1..created
     closed |-> {}]      \* connections on which Close() was called

isConnectionAlive(m, probeOk) == m.connection # NoConn /\ probeOk

(* the result is (manager state, returned server or NoConn with an error) *)
createNewConnection(m, up) ==
    IF up
    THEN [m |-> [m EXCEPT !.created = @ + 1,
                          !.connection = m.created + 1,
                          !.sessionActive = TRUE,
                          !.sinceActivity = 0],
          server |-> m.created + 1]
    ELSE [m |-> m, server |-> NoConn]

(* a cleanup that drops the connection without closing it *)
cleanupConnection_NoClose(m) ==
    [m EXCEPT !.connection = NoConn,
              !.sessionActive = FALSE,
              !.callCache = EmptyCache]

cleanupConnection_KeepCache(m) ==
    [m EXCEPT !.closed = IF m.connection # NoConn THEN @ \cup {m.connection} ELSE @,
              !.connection = NoConn,
              !.sessionActive = FALSE]

cleanupConnection(m) ==
    [m EXCEPT !.closed = IF m.connection # NoConn THEN @ \cup {m.connection} ELSE @,
              !.connection = NoConn,
              !.sessionActive = FALSE,
              !.callCache = EmptyCache]

(* the branch ensureConnection takes: what its log line prints *)
ensureBranch(m, probeOk) ==
    IF m.connection # NoConn /\ m.sessionActive
    THEN IF m.sinceActivity > ReuseWindow THEN "expired"
         ELSE IF isConnectionAlive(m, probeOk) THEN "reuse" ELSE "dead"
    ELSE "first"

(* ensureConnection as it would be with the window test >= instead of > *)
ensureConnection_AtWindow(m, probeOk, up) ==
    IF m.connection # NoConn /\ m.sessionActive
    THEN IF m.sinceActivity >= ReuseWindow
         THEN createNewConnection(cleanupConnection(m), up)
         ELSE IF isConnectionAlive(m, probeOk)
              THEN [m |-> [m EXCEPT !.sinceActivity = 0], server |-> m.connection]
              ELSE createNewConnection(cleanupConnection(m), up)
    ELSE createNewConnection(m, up)

(* ensureConnection as it would be if the old connection were cleaned up
   only once its replacement exists *)
ensureConnection_LateCleanup(m, probeOk, up) ==
    IF m.connection # NoConn /\ m.sessionActive
    THEN IF m.sinceActivity <= ReuseWindow /\ isConnectionAlive(m, probeOk)
         THEN [m |-> [m EXCEPT !.sinceActivity = 0], server |-> m.connection]
         ELSE IF up THEN createNewConnection(cleanupConnection(m), up)
              ELSE [m |-> m, server |-> NoConn]
    ELSE createNewConnection(m, up)

ensureConnection(m, probeOk, up) ==
    IF m.connection # NoConn /\ m.sessionActive
    THEN IF m.sinceActivity > ReuseWindow
         THEN createNewConnection(cleanupConnection(m), up)
         ELSE IF isConnectionAlive(m, probeOk)
              THEN [m |-> [m EXCEPT !.sinceActivity = 0], server |-> m.connection]
              ELSE createNewConnection(cleanupConnection(m), up)
    ELSE createNewConnection(m, up)

-----------------------------------------------------------------------------
(* Goroutines *)

(* a goroutine between two operations; it still holds what its last
   operation returned (op, response, err) *)
Idle == [pc |-> "idle", op |-> "none", id |-> <<"lookup", 1>>, server |-> NoConn,
         response |-> NoResp, err |-> FALSE,
         via |-> "none",  \* how ensureConnection obtained server, while it is held
         peers |-> {}]    \* CallTool invocations with the same id in flight together with this one

InFlight(p) == call[p].pc # "idle"

(* the other goroutines forget a peer that starts a new operation *)
Forget(c, p) == [q \in Procs |-> [c[q] EXCEPT !.peers = @ \ {p}]]

MCPInit ==
    /\ mgr = NewSessionMCPManager
    /\ call = [p \in Procs |-> Idle]
    /\ linkOk = TRUE
    /\ nextResp = 1

(* CallTool, first critical section: the cache check under s.mutex *)
CallToolBegin(p, name, args) ==
    LET id == generateCallID(name, args)
        racing == {q \in Procs \ {p} : InFlight(q) /\ call[q].op = "CallTool"
                                        /\ call[q].id = id}
        c == Forget(call, p)
    IN /\ call[p].pc = "idle"
       /\ IF mgr.callCache[id] # NoResp
          THEN call' = [c EXCEPT ![p] = [Idle EXCEPT !.op = "CallTool", !.id = id,
                                                     !.response = mgr.callCache[id]]]
          ELSE call' = [q \in Procs |->
                          IF q = p
                          THEN [Idle EXCEPT !.pc = "ensure", !.op = "CallTool", !.id = id,
                                            !.peers = racing]
                          ELSE IF q \in racing
                               THEN [c[q] EXCEPT !.peers = @ \cup {p}]
                               ELSE c[q]]
       /\ UNCHANGED <<mgr, linkOk, nextResp>>

(* what a call to ensureConnection leaves behind *)
Ensured(p, op, up, c) ==
    LET r == ensureConnection(mgr, linkOk, up)
    IN /\ r.m.created <= MaxConns
       /\ mgr' = r.m
       /\ linkOk' = IF r.m.connection # mgr.connection THEN TRUE ELSE linkOk
       /\ call' = [c EXCEPT ![p] =
                     IF r.server = NoConn
                     THEN [Idle EXCEPT !.op = op, !.err = TRUE]
                     ELSE [@ EXCEPT !.pc = "call", !.op = op, !.err = FALSE,
                                    !.response = NoResp, !.server = r.server,
                                    !.via = ensureBranch(mgr, linkOk)]]
       /\ UNCHANGED nextResp

(* CallTool after a cache miss: server, err := s.ensureConnection(ctx) *)
CallToolEnsure(p, up) ==
    /\ call[p].pc = "ensure"
    /\ Ensured(p, "CallTool", up, call)

(* ListTools / Initialize begin with s.ensureConnection(ctx) *)
ListToolsEnsure(p, up) ==
    /\ call[p].pc = "idle"
    /\ Ensured(p, "ListTools", up, Forget(call, p))

InitializeEnsure(p, up) ==
    /\ call[p].pc = "idle"
    /\ Ensured(p, "Initialize", up, Forget(call, p))

(* response, err := server.CallTool(ctx, name, args), outside the lock *)
ServerCallTool(p, ok) ==
    /\ call[p].pc = "call" /\ call[p].op = "CallTool"
    /\ IF ok
       THEN /\ nextResp <= MaxResp
            /\ call' = [call EXCEPT ![p] = [@ EXCEPT !.pc = "store", !.response = nextResp,
                                                     !.via = "none"]]
            /\ nextResp' = nextResp + 1
       ELSE /\ call' = [call EXCEPT ![p] = [Idle EXCEPT !.op = "CallTool", !.err = TRUE]]
            /\ UNCHANGED nextResp
    /\ UNCHANGED <<mgr, linkOk>>

(* the second critical section as it would be without the cache write *)
CallToolStore_NoCache(p) ==
    /\ call[p].pc = "store"
    /\ call' = [call EXCEPT ![p] = [@ EXCEPT !.pc = "idle", !.server = NoConn]]
    /\ UNCHANGED <<mgr, linkOk, nextResp>>

(* CallTool, second critical section: double check, then cache the response *)
CallToolStore(p) ==
    LET id == call[p].id
    IN /\ call[p].pc = "store"
       /\ IF mgr.callCache[id] # NoResp
          THEN /\ call' = [call EXCEPT ![p] = [@ EXCEPT !.pc = "idle", !.server = NoConn,
                                                        !.response = mgr.callCache[id]]]
               /\ UNCHANGED mgr
          ELSE /\ mgr' = [mgr EXCEPT !.callCache[id] = call[p].response,
                                     !.sinceActivity = 0]
               /\ call' = [call EXCEPT ![p] = [@ EXCEPT !.pc = "idle", !.server = NoConn]]
       /\ UNCHANGED <<linkOk, nextResp>>

(* server.ListTools(ctx) / server.Initialize(ctx) on the handle obtained *)
ServerListTools(p, ok) ==
    /\ call[p].pc = "call" /\ call[p].op = "ListTools"
    /\ call' = [call EXCEPT ![p] = Idle]
    /\ UNCHANGED <<mgr, linkOk, nextResp>>

ServerInitialize(p, ok) ==
    /\ call[p].pc = "call" /\ call[p].op = "Initialize"
    /\ call' = [call EXCEPT ![p] = Idle]
    /\ UNCHANGED <<mgr, linkOk, nextResp>>

(* Close: cleanupConnection under s.mutex *)
Close(p) ==
    /\ call[p].pc = "idle"
    /\ mgr' = cleanupConnection(mgr)
    /\ linkOk' = TRUE
    /\ call' = [Forget(call, p) EXCEPT ![p] = [Idle EXCEPT !.op = "Close"]]
    /\ UNCHANGED nextResp

(* a minute passes; only the comparison with ReuseWindow reads the clock, so
   the elapsed time saturates just above the window *)
Tick ==
    /\ mgr.sinceActivity <= ReuseWindow
    /\ mgr' = [mgr EXCEPT !.sinceActivity = @ + 1]
    /\ UNCHANGED <<call, linkOk, nextResp>>

(* the stored connection breaks: its ListTools probe will fail *)
EnvLinkBreaks ==
    /\ mgr.connection # NoConn /\ linkOk
    /\ linkOk' = FALSE
    /\ UNCHANGED <<mgr, call, nextResp>>

MCPNext ==
    \/ (\E p \in Procs : \E n \in ToolNames, a \in ArgVals : CallToolBegin(p, n, a))
          /\ UNCHANGED <<taskVars, streamVars, healthVars, hookVars, bufVars, lockVars, logVars, lazyVars>>
    \/ (\E p \in Procs : \E up \in BOOLEAN : CallToolEnsure(p, up)) /\ UNCHANGED <<taskVars, streamVars, healthVars, hookVars, bufVars, lockVars, logVars, lazyVars>>
    \/ (\E p \in Procs : \E up \in BOOLEAN : ListToolsEnsure(p, up)) /\ UNCHANGED <<taskVars, streamVars, healthVars, hookVars, bufVars, lockVars, logVars, lazyVars>>
    \/ (\E p \in Procs : \E up \in BOOLEAN : InitializeEnsure(p, up)) /\ UNCHANGED <<taskVars, streamVars, healthVars, hookVars, bufVars, lockVars, logVars, lazyVars>>
    \/ (\E p \in Procs : \E ok \in BOOLEAN : ServerCallTool(p, ok)) /\ UNCHANGED <<taskVars, streamVars, healthVars, hookVars, bufVars, lockVars, logVars, lazyVars>>
    \/ (\E p \in Procs : CallToolStore(p)) /\ UNCHANGED <<taskVars, streamVars, healthVars, hookVars, bufVars, lockVars, logVars, lazyVars>>
    \/ (\E p \in Procs : \E ok \in BOOLEAN : ServerListTools(p, ok)) /\ UNCHANGED <<taskVars, streamVars, healthVars, hookVars, bufVars, lockVars, logVars, lazyVars>>
    \/ (\E p \in Procs : \E ok \in BOOLEAN : ServerInitialize(p, ok)) /\ UNCHANGED <<taskVars, streamVars, healthVars, hookVars, bufVars, lockVars, logVars, lazyVars>>
    \/ (\E p \in Procs : Close(p)) /\ UNCHANGED <<taskVars, streamVars, healthVars, hookVars, bufVars, lockVars, logVars, lazyVars>>
    \/ Tick /\ UNCHANGED <<taskVars, streamVars, healthVars, hookVars, bufVars, lockVars, logVars, lazyVars>>
    \/ EnvLinkBreaks /\ UNCHANGED <<taskVars, streamVars, healthVars, hookVars, bufVars, lockVars, logVars, lazyVars>>

-----------------------------------------------------------------------------
(* The SessionMCPManager variants without a call cache (package session and
   agent-wework's handler.go): the same connection management, CallTool
   without callCache *)

(* CallTool: server, err := s.ensureConnection(ctx) *)
NoCacheCallToolEnsure(p, up) ==
    /\ call[p].pc = "idle"
    /\ Ensured(p, "CallTool", up, Forget(call, p))

(* CallTool: response, err := server.CallTool(ctx, name, args) *)
NoCacheServerCallTool(p, ok) ==
    /\ call[p].pc = "call" /\ call[p].op = "CallTool"
    /\ IF ok
       THEN /\ nextResp <= MaxResp
            /\ call' = [call EXCEPT ![p] = [@ EXCEPT !.pc = "touch", !.response = nextResp,
                                                     !.server = NoConn, !.via = "none"]]
            /\ nextResp' = nextResp + 1
       ELSE /\ call' = [call EXCEPT ![p] = [Idle EXCEPT !.op = "CallTool", !.err = TRUE]]
            /\ UNCHANGED nextResp
    /\ UNCHANGED <<mgr, linkOk>>

(* the last step as it would be with the cache of the other variant *)
NoCacheCallToolTouch_Cached(p) ==
    LET id == call[p].id
    IN /\ call[p].pc = "touch"
       /\ IF mgr.callCache[id] # NoResp
          THEN /\ call' = [call EXCEPT ![p] = [@ EXCEPT !.pc = "idle",
                                                        !.response = mgr.callCache[id]]]
               /\ UNCHANGED mgr
          ELSE /\ mgr' = [mgr EXCEPT !.callCache[id] = call[p].response,
                                     !.sinceActivity = 0]
               /\ call' = [call EXCEPT ![p] = [@ EXCEPT !.pc = "idle"]]
       /\ UNCHANGED <<linkOk, nextResp>>

(* CallTool: s.lastActivity = time.Now() under s.mutex, return response *)
NoCacheCallToolTouch(p) ==
    /\ call[p].pc = "touch"
    /\ mgr' = [mgr EXCEPT !.sinceActivity = 0]
    /\ call' = [call EXCEPT ![p] = [@ EXCEPT !.pc = "idle"]]
    /\ UNCHANGED <<linkOk, nextResp>>

NoCacheNext ==
    \/ (\E p \in Procs : \E up \in BOOLEAN : NoCacheCallToolEnsure(p, up))
          /\ UNCHANGED <<taskVars, streamVars, healthVars, hookVars, bufVars, lockVars, logVars, lazyVars>>
    \/ (\E p \in Procs : \E ok \in BOOLEAN : NoCacheServerCallTool(p, ok))
          /\ UNCHANGED <<taskVars, streamVars, healthVars, hookVars, bufVars, lockVars, logVars, lazyVars>>
    \/ (\E p \in Procs : NoCacheCallToolTouch(p)) /\ UNCHANGED <<taskVars, streamVars, healthVars, hookVars, bufVars, lockVars, logVars, lazyVars>>
    \/ (\E p \in Procs : \E up \in BOOLEAN : ListToolsEnsure(p, up)) /\ UNCHANGED <<taskVars, streamVars, healthVars, hookVars, bufVars, lockVars, logVars, lazyVars>>
    \/ (\E p \in Procs : \E up \in BOOLEAN : InitializeEnsure(p, up)) /\ UNCHANGED <<taskVars, streamVars, healthVars, hookVars, bufVars, lockVars, logVars, lazyVars>>
    \/ (\E p \in Procs : \E ok \in BOOLEAN : ServerListTools(p, ok)) /\ UNCHANGED <<taskVars, streamVars, healthVars, hookVars, bufVars, lockVars, logVars, lazyVars>>
    \/ (\E p \in Procs : \E ok \in BOOLEAN : ServerInitialize(p, ok)) /\ UNCHANGED <<taskVars, streamVars, healthVars, hookVars, bufVars, lockVars, logVars, lazyVars>>
    \/ (\E p \in Procs : Close(p)) /\ UNCHANGED <<taskVars, streamVars, healthVars, hookVars, bufVars, lockVars, logVars, lazyVars>>
    \/ Tick /\ UNCHANGED <<taskVars, streamVars, healthVars, hookVars, bufVars, lockVars, logVars, lazyVars>>
    \/ EnvLinkBreaks /\ UNCHANGED <<taskVars, streamVars, healthVars, hookVars, bufVars, lockVars, logVars, lazyVars>>

-----------------------------------------------------------------------------
(* TaskCacheManager: tasks, their workers, and the handler that polls them *)

(* Program constant: MaxSteps: 10 in Invoke *)
MaxSteps == 10

TaskIds == 1..MaxTasks
Pollers == 1..NumPollers
Chunks  == 1..NumChunks
NoTask  == 0
Empty   == 0       \* an event whose Content is ""

(* Texts are sequences of tokens <<kind, n>> *)
TokQuestion == <<"question", 0>>      \* "收到问题：%s\n\n"
TokAI       == <<"ai", 0>>            \* "AI回复:\n"
TokFailed   == <<"failed", 0>>        \* "处理失败: %v"
TokMissing  == <<"missing", 0>>       \* "任务不存在或已过期"
TokChunk(c) == <<"chunk", c>>
TokPreparing(i) == <<"preparing", i>> \* "处理步骤 %d: 准备中...\n"
TokCompleted(i) == <<"completed", i>> \* "处理步骤 %d: 已完成\n"

(* TaskInfo as Invoke builds it; Received is a history field, the
   non-empty event contents the task's worker has read so far, in order *)
NewTask == [CurrentStep |-> 0, Content |-> <<>>, IsProcessing |-> FALSE,
            IsFinished |-> FALSE, Received |-> <<>>]

IdlePoller == [pc |-> "idle", id |-> NoTask, answer |-> <<>>]

(* no stream response returned yet (every returned text is non-empty) *)
NoResponse == [answer |-> <<>>, finish |-> FALSE]

TaskInit ==
    /\ tasks = [t \in TaskIds |-> NewTask]
    /\ registry = {}
    /\ nextTask = 1
    /\ worker = [t \in TaskIds |-> "none"]
    /\ poller = [q \in Pollers |-> IdlePoller]
    /\ resp = [t \in TaskIds |-> NoResponse]

(* HandleMessage, step 1: taskCache.Invoke registers the task and starts
   its worker *)
Invoke(q) ==
    /\ poller[q].pc = "idle"
    /\ nextTask <= MaxTasks
    /\ tasks' = [tasks EXCEPT ![nextTask] = NewTask]
    /\ registry' = registry \cup {nextTask}
    /\ worker' = [worker EXCEPT ![nextTask] = "lookup"]
    /\ poller' = [poller EXCEPT ![q] = [IdlePoller EXCEPT !.pc = "answer", !.id = nextTask]]
    /\ nextTask' = nextTask + 1
    /\ UNCHANGED resp

(* HandleStreamRefresh(streamID) is entered *)
RefreshBegin(q, id) ==
    /\ poller[q].pc = "idle"
    /\ poller' = [poller EXCEPT ![q] = [IdlePoller EXCEPT !.pc = "answer", !.id = id]]
    /\ UNCHANGED <<tasks, registry, nextTask, worker, resp>>

(* the step counter after GetAnswer's increment *)
StepAfterPoll(t) ==
    IF ~t.IsFinished /\ t.CurrentStep < t.MaxSteps THEN t.CurrentStep + 1 ELSE t.CurrentStep

(* the text GetAnswer builds from a task whose step is already updated *)
AnswerText(t) ==
    IF t.IsProcessing /\ Len(t.Content) = 0
    THEN <<TokQuestion>> \o [i \in 1..t.CurrentStep |-> TokPreparing(i)]
    ELSE IF Len(t.Content) > 0
         THEN <<TokQuestion, TokAI>> \o t.Content
         ELSE <<TokQuestion>> \o [i \in 1..t.CurrentStep |-> TokCompleted(i)]

WithMax(t) == [CurrentStep |-> t.CurrentStep, Content |-> t.Content,
               IsProcessing |-> t.IsProcessing, IsFinished |-> t.IsFinished,
               MaxSteps |-> MaxSteps]

(* answer := taskCache.GetAnswer(streamID) *)
GetAnswer(q) ==
    LET id == poller[q].id
    IN /\ poller[q].pc = "answer"
       /\ IF id \notin registry
          THEN /\ poller' = [poller EXCEPT ![q] = [@ EXCEPT !.pc = "finish",
                                                            !.answer = <<TokMissing>>]]
               /\ UNCHANGED tasks
          ELSE LET stepped == [tasks[id] EXCEPT !.CurrentStep = StepAfterPoll(WithMax(tasks[id]))]
               IN /\ tasks' = [tasks EXCEPT ![id] = stepped]
                  /\ poller' = [poller EXCEPT ![q] = [@ EXCEPT !.pc = "finish",
                                                               !.answer = AnswerText(stepped)]]
       /\ UNCHANGED <<registry, nextTask, worker, resp>>

(* the value IsTaskFinish computes for a registered task *)
isFinished_NoStepLimit(t) ==
    \/ t.IsFinished
    \/ (~t.IsProcessing /\ Len(t.Content) > 0)

isFinished(t) ==
    \/ t.IsFinished
    \/ t.CurrentStep >= t.MaxSteps
    \/ (~t.IsProcessing /\ Len(t.Content) > 0)

(* finish := taskCache.IsTaskFinish(streamID); the stream response
   (streamID, answer, finish) is returned *)
IsTaskFinish(q) ==
    LET id == poller[q].id
    IN /\ poller[q].pc = "finish"
       /\ poller' = [poller EXCEPT ![q] = IdlePoller]
       /\ resp' = [resp EXCEPT ![id] =
             [answer |-> poller[q].answer,
              finish |-> IF id \notin registry THEN TRUE
                         ELSE isFinished(WithMax(tasks[id]))]]
       /\ UNCHANGED <<tasks, registry, nextTask, worker>>

(* processTaskAsync: look the task up *)
WorkerLookup(t) ==
    /\ worker[t] = "lookup"
    /\ worker' = [worker EXCEPT ![t] = IF t \in registry THEN "mark" ELSE "exit"]
    /\ UNCHANGED <<tasks, registry, nextTask, poller, resp>>

(* processTaskAsync: task.IsProcessing = true *)
WorkerMark(t) ==
    /\ worker[t] = "mark"
    /\ tasks' = [tasks EXCEPT ![t].IsProcessing = TRUE]
    /\ worker' = [worker EXCEPT ![t] = "run"]
    /\ UNCHANGED <<registry, nextTask, poller, resp>>

(* processTaskAsync: agentInstance.RunStream returns the channel or an error *)
WorkerRunStream_NoMessage(t, ok) ==
    /\ worker[t] = "run"
    /\ IF ok
       THEN /\ worker' = [worker EXCEPT ![t] = "stream"]
            /\ UNCHANGED tasks
       ELSE /\ worker' = [worker EXCEPT ![t] = "exit"]
            /\ tasks' = [tasks EXCEPT ![t].IsProcessing = FALSE,
                                      ![t].IsFinished = TRUE]
    /\ UNCHANGED <<registry, nextTask, poller, resp>>

WorkerRunStream(t, ok) ==
    /\ worker[t] = "run"
    /\ IF ok
       THEN /\ worker' = [worker EXCEPT ![t] = "stream"]
            /\ UNCHANGED tasks
       ELSE /\ worker' = [worker EXCEPT ![t] = "exit"]
            /\ tasks' = [tasks EXCEPT ![t].IsProcessing = FALSE,
                                      ![t].IsFinished = TRUE,
                                      ![t].Content = @ \o <<TokFailed>>]
    /\ UNCHANGED <<registry, nextTask, poller, resp>>

(* processTaskAsync: one event of the stream, its Content c possibly "";
   an event without content leaves the task as it is *)
WorkerEvent_Overwrite(t, c) ==
    /\ worker[t] = "stream"
    /\ c # Empty => Len(tasks[t].Content) < MaxEvents
    /\ tasks' = [tasks EXCEPT ![t].Content = IF c # Empty THEN <<TokChunk(c)>> ELSE @,
                              ![t].Received = IF c # Empty THEN @ \o <<TokChunk(c)>> ELSE @]
    /\ UNCHANGED <<registry, nextTask, worker, poller, resp>>

WorkerEvent(t, c) ==
    /\ worker[t] = "stream"
    /\ c # Empty => Len(tasks[t].Content) < MaxEvents
    /\ tasks' = [tasks EXCEPT ![t].Content = IF c # Empty THEN @ \o <<TokChunk(c)>> ELSE @,
                              ![t].Received = IF c # Empty THEN @ \o <<TokChunk(c)>> ELSE @]
    /\ UNCHANGED <<registry, nextTask, worker, poller, resp>>

(* processTaskAsync: the channel is closed, the task is marked finished *)
WorkerFinish(t) ==
    /\ worker[t] = "stream"
    /\ worker' = [worker EXCEPT ![t] = "exit"]
    /\ tasks' = [tasks EXCEPT ![t].IsProcessing = FALSE,
                              ![t].IsFinished = TRUE,
                              ![t].CurrentStep = MaxSteps]
    /\ UNCHANGED <<registry, nextTask, poller, resp>>

(* TaskCacheManager.Close deletes every task *)
TaskCacheClose ==
    /\ registry # {}
    /\ registry' = {}
    /\ UNCHANGED <<tasks, nextTask, worker, poller, resp>>

TaskNext ==
    \/ (\E q \in Pollers : Invoke(q)) /\ UNCHANGED <<mcpVars, streamVars, healthVars, hookVars, bufVars, lockVars, logVars, lazyVars>>
    \/ (\E q \in Pollers : \E id \in TaskIds : RefreshBegin(q, id)) /\ UNCHANGED <<mcpVars, streamVars, healthVars, hookVars, bufVars, lockVars, logVars, lazyVars>>
    \/ (\E q \in Pollers : GetAnswer(q)) /\ UNCHANGED <<mcpVars, streamVars, healthVars, hookVars, bufVars, lockVars, logVars, lazyVars>>
    \/ (\E q \in Pollers : IsTaskFinish(q)) /\ UNCHANGED <<mcpVars, streamVars, healthVars, hookVars, bufVars, lockVars, logVars, lazyVars>>
    \/ (\E t \in TaskIds : WorkerLookup(t)) /\ UNCHANGED <<mcpVars, streamVars, healthVars, hookVars, bufVars, lockVars, logVars, lazyVars>>
    \/ (\E t \in TaskIds : WorkerMark(t)) /\ UNCHANGED <<mcpVars, streamVars, healthVars, hookVars, bufVars, lockVars, logVars, lazyVars>>
    \/ (\E t \in TaskIds : \E ok \in BOOLEAN : WorkerRunStream(t, ok)) /\ UNCHANGED <<mcpVars, streamVars, healthVars, hookVars, bufVars, lockVars, logVars, lazyVars>>
    \/ (\E t \in TaskIds : \E c \in Chunks \cup {Empty} : WorkerEvent(t, c)) /\ UNCHANGED <<mcpVars, streamVars, healthVars, hookVars, bufVars, lockVars, logVars, lazyVars>>
    \/ (\E t \in TaskIds : WorkerFinish(t)) /\ UNCHANGED <<mcpVars, streamVars, healthVars, hookVars, bufVars, lockVars, logVars, lazyVars>>
    \/ TaskCacheClose /\ UNCHANGED <<mcpVars, streamVars, healthVars, hookVars, bufVars, lockVars, logVars, lazyVars>>

-----------------------------------------------------------------------------
(* StreamManager and the handler that publishes a stream through it *)

(* Program constant: expiredTimeout := 10 * time.Minute, in minutes *)
ExpiredTimeout == 10

StreamIds == 1..MaxStreams
NoStream == 0

(* StreamState as CreateStream builds it; sinceUpdate is
   time.Since(state.LastUpdate) in minutes, saturating above the timeout *)
NewStreamState == [Content |-> <<>>, IsActive |-> TRUE, sinceUpdate |-> 0]

IdleRefresher == [pc |-> "idle", id |-> NoStream, content |-> <<>>, isActive |-> FALSE]

StreamInit ==
    /\ streams = [i \in StreamIds |-> NewStreamState]
    /\ streamMap = {}
    /\ nextStream = 1
    /\ sworker = [i \in StreamIds |-> [pc |-> "none", responseText |-> <<>>]]
    /\ refresher = [q \in Pollers |-> IdleRefresher]
    /\ sresp = [i \in StreamIds |-> NoResponse]

(* UpdateStreamContent(streamID, content, isFinished) on the objects *)
UpdateStreamContent(ss, map, id, content, finished) ==
    IF id \notin map
    THEN ss
    ELSE [ss EXCEPT ![id] = [Content |-> content,
                             IsActive |-> IF finished THEN FALSE ELSE @.IsActive,
                             sinceUpdate |-> 0]]

(* HandleMessage with a text: RunStream succeeded, the stream is created,
   its goroutine started and the stream-start response returned *)
HandleMessageStream(q) ==
    /\ refresher[q].pc = "idle"
    /\ nextStream <= MaxStreams
    /\ streams' = [streams EXCEPT ![nextStream] = NewStreamState]
    /\ streamMap' = streamMap \cup {nextStream}
    /\ sworker' = [sworker EXCEPT ![nextStream] = [pc |-> "stream", responseText |-> <<>>]]
    /\ sresp' = [sresp EXCEPT ![nextStream] = [answer |-> <<>>, finish |-> FALSE]]
    /\ nextStream' = nextStream + 1
    /\ UNCHANGED refresher

(* the goroutine: one event of eventChan, its Content c possibly "" *)
StreamEvent(i, c) ==
    /\ sworker[i].pc = "stream"
    /\ c # Empty => Len(sworker[i].responseText) < MaxEvents
    /\ IF c = Empty
       THEN UNCHANGED <<sworker, streams>>
       ELSE LET text == sworker[i].responseText \o <<TokChunk(c)>>
            IN /\ sworker' = [sworker EXCEPT ![i].responseText = text]
               /\ streams' = UpdateStreamContent(streams, streamMap, i, text, FALSE)
    /\ UNCHANGED <<streamMap, nextStream, refresher, sresp>>

(* the goroutine: eventChan is closed, the deferred update runs *)
StreamDone(i) ==
    /\ sworker[i].pc = "stream"
    /\ sworker' = [sworker EXCEPT ![i].pc = "exit"]
    /\ streams' = UpdateStreamContent(streams, streamMap, i, <<>>, TRUE)
    /\ UNCHANGED <<streamMap, nextStream, refresher, sresp>>

(* NewTextResponse("对话已结束，请发送新消息开始新的对话。"): a text message,
   it has no stream part; the client reads it as content "", finished false *)
TokEnded == <<"ended", 0>>
TextResponse == [answer |-> <<TokEnded>>, finish |-> FALSE]

(* HandleStreamRefresh: state := streamManager.GetStream(streamID) *)
GetStream(q, i) ==
    /\ refresher[q].pc = "idle"
    /\ IF i \notin streamMap
       THEN /\ sresp' = [sresp EXCEPT ![i] = TextResponse]
            /\ UNCHANGED <<streams, refresher>>
       ELSE /\ streams' = [streams EXCEPT ![i].sinceUpdate = 0]
            /\ refresher' = [refresher EXCEPT ![q] = [IdleRefresher EXCEPT !.pc = "read", !.id = i]]
            /\ UNCHANGED sresp
    /\ UNCHANGED <<streamMap, nextStream, sworker>>

(* HandleStreamRefresh: content, isActive := state.GetStreamContent() *)
GetStreamContent(q) ==
    /\ refresher[q].pc = "read"
    /\ refresher' = [refresher EXCEPT ![q] =
          [@ EXCEPT !.pc = "reply",
                    !.content = streams[refresher[q].id].Content,
                    !.isActive = streams[refresher[q].id].IsActive]]
    /\ UNCHANGED <<streams, streamMap, nextStream, sworker, sresp>>

(* DeleteStream(streamID) on the objects *)
DeleteStream(ss, map, id) ==
    IF id \in map THEN [ss EXCEPT ![id].IsActive = FALSE] ELSE ss

(* HandleStreamRefresh: delete the stream if it ended, return the response *)
RefreshReply(q) ==
    LET i == refresher[q].id
    IN /\ refresher[q].pc = "reply"
       /\ IF ~refresher[q].isActive
          THEN /\ streams' = DeleteStream(streams, streamMap, i)
               /\ streamMap' = streamMap \ {i}
          ELSE UNCHANGED <<streams, streamMap>>
       /\ sresp' = [sresp EXCEPT ![i] = [answer |-> refresher[q].content,
                                         finish |-> ~refresher[q].isActive]]
       /\ refresher' = [refresher EXCEPT ![q] = IdleRefresher]
       /\ UNCHANGED <<nextStream, sworker>>

(* the streams cleanupExpiredStreams deletes *)
ExpiredOrInactive(ss, map) ==
    {i \in map : ss[i].sinceUpdate > ExpiredTimeout \/ ~ss[i].IsActive}

cleanupExpiredStreams ==
    /\ ExpiredOrInactive(streams, streamMap) # {}
    /\ streamMap' = streamMap \ ExpiredOrInactive(streams, streamMap)
    /\ UNCHANGED <<streams, nextStream, sworker, refresher, sresp>>

(* a minute passes *)
StreamTick ==
    /\ \E i \in streamMap : streams[i].sinceUpdate <= ExpiredTimeout
    /\ streams' = [i \in StreamIds |->
                     IF i \in streamMap /\ streams[i].sinceUpdate <= ExpiredTimeout
                     THEN [streams[i] EXCEPT !.sinceUpdate = @ + 1]
                     ELSE streams[i]]
    /\ UNCHANGED <<streamMap, nextStream, sworker, refresher, sresp>>

StreamNext ==
    \/ (\E q \in Pollers : HandleMessageStream(q)) /\ UNCHANGED <<mcpVars, taskVars, healthVars, hookVars, bufVars, lockVars, logVars, lazyVars>>
    \/ (\E i \in StreamIds : \E c \in Chunks \cup {Empty} : StreamEvent(i, c))
          /\ UNCHANGED <<mcpVars, taskVars, healthVars, hookVars, bufVars, lockVars, logVars, lazyVars>>
    \/ (\E i \in StreamIds : StreamDone(i)) /\ UNCHANGED <<mcpVars, taskVars, healthVars, hookVars, bufVars, lockVars, logVars, lazyVars>>
    \/ (\E q \in Pollers : \E i \in StreamIds : GetStream(q, i)) /\ UNCHANGED <<mcpVars, taskVars, healthVars, hookVars, bufVars, lockVars, logVars, lazyVars>>
    \/ (\E q \in Pollers : GetStreamContent(q)) /\ UNCHANGED <<mcpVars, taskVars, healthVars, hookVars, bufVars, lockVars, logVars, lazyVars>>
    \/ (\E q \in Pollers : RefreshReply(q)) /\ UNCHANGED <<mcpVars, taskVars, healthVars, hookVars, bufVars, lockVars, logVars, lazyVars>>
    \/ cleanupExpiredStreams /\ UNCHANGED <<mcpVars, taskVars, healthVars, hookVars, bufVars, lockVars, logVars, lazyVars>>
    \/ StreamTick /\ UNCHANGED <<mcpVars, taskVars, healthVars, hookVars, bufVars, lockVars, logVars, lazyVars>>

-----------------------------------------------------------------------------
(* MCPHealthManager and ResilientMCPServer *)

(* Program constants of reconnectLoop: backoff and maxBackoff in seconds *)
initialBackoff == 1
maxBackoff == 30
maxRetries == 10

Callers == 1..NumCallers
LoopIds == 1..MaxLoops
ServerIds == 1..MaxServers
NoServer == 0

(* NewMCPHealthManager: reconnectCh is the number of signals buffered in the
   channel (capacity 1); stopped is both ctx cancelled and the channel closed *)
NewMCPHealthManager ==
    [server |-> 1, isHealthy |-> TRUE, stopped |-> FALSE, reconnectCh |-> 0]

NoLoop == [pc |-> "none", retryCount |-> 0, backoff |-> initialBackoff, newServer |-> NoServer]
NewLoop == [NoLoop EXCEPT !.pc = "head"]

(* past its last attempt a loop reads retryCount and backoff no more *)
Ended(pc) == [NoLoop EXCEPT !.pc = pc]

(* a loop that returned leaves no state behind; one that used up its
   retries is remembered as "gaveup" until its slot is taken again *)
LoopEnded == {"none", "gaveup"}

IdleCall == [pc |-> "idle", op |-> "none", server |-> NoServer]

ToolOps == {"ListTools", "CallTool"}

HealthInit ==
    /\ hm = NewMCPHealthManager
    /\ loops = [l \in LoopIds |-> NoLoop]
    /\ hcLoop = "select"
    /\ rcall = [c \in Callers |-> IdleCall]

(* an unrecovered panic ends the process *)
Crashed ==
    \/ \E l \in LoopIds : loops[l].pc = "panic"
    \/ \E c \in Callers : rcall[c].pc = "panic"

(* a handle no goroutine and no field refers to any more can be handed out again *)
ServersInUse ==
    {hm.server} \cup {loops[l].newServer : l \in LoopIds} \cup {rcall[c].server : c \in Callers}

FreshServer == CHOOSE i \in ServerIds \ ServersInUse : \A j \in ServerIds \ ServersInUse : i <= j

(* triggerReconnect: go m.reconnectLoop() *)
FreeLoops(ls) ==
    IF \E l \in LoopIds : ls[l].pc = "none"
    THEN {l \in LoopIds : ls[l].pc = "none"}
    ELSE {l \in LoopIds : ls[l].pc \in LoopEnded}

CanTrigger(ls) == FreeLoops(ls) # {}

triggerReconnect(ls) ==
    LET l == CHOOSE i \in FreeLoops(ls) : \A j \in FreeLoops(ls) : i <= j
    IN [ls EXCEPT ![l] = NewLoop]

(* the doubling as it would be if it stopped at maxBackoff *)
nextBackoff_Capped(b) == IF b * 2 < maxBackoff THEN b * 2 ELSE maxBackoff

(* reconnectLoop: if backoff < maxBackoff { backoff *= 2 } *)
nextBackoff(b) == IF b < maxBackoff THEN b * 2 ELSE b

(* reconnectLoop: the loop condition and the ctx check end the loop *)
LoopExit(l) ==
    /\ ~Crashed
    /\ loops[l].pc = "head"
    /\ hm.isHealthy \/ loops[l].retryCount >= maxRetries \/ hm.stopped
    /\ loops' = [loops EXCEPT ![l] =
                   IF ~hm.isHealthy /\ loops[l].retryCount >= maxRetries
                   THEN Ended("gaveup")
                   ELSE NoLoop]
    /\ UNCHANGED <<hm, hcLoop, rcall>>

(* an attempt as it would be with the loop condition retryCount <= maxRetries *)
LoopAttempt_OneMore(l, ok) ==
    /\ ~Crashed
    /\ loops[l].pc = "head"
    /\ ~hm.isHealthy /\ loops[l].retryCount <= maxRetries /\ ~hm.stopped
    /\ IF ok
       THEN /\ ServerIds \ ServersInUse # {}
            /\ loops' = [loops EXCEPT ![l] = [Ended("swap") EXCEPT !.newServer = FreshServer]]
       ELSE loops' = [loops EXCEPT ![l] = [@ EXCEPT !.retryCount = @ + 1,
                                                    !.backoff = nextBackoff(@)]]
    /\ UNCHANGED <<hm, hcLoop, rcall>>

(* reconnectLoop: one attempt (NewHTTPServer and the ListTools test, ok
   when both succeed); a failed one is followed by time.Sleep(backoff)
   and the doubling *)
LoopAttempt(l, ok) ==
    /\ ~Crashed
    /\ loops[l].pc = "head"
    /\ ~hm.isHealthy /\ loops[l].retryCount < maxRetries /\ ~hm.stopped
    /\ IF ok
       THEN /\ ServerIds \ ServersInUse # {}
            /\ loops' = [loops EXCEPT ![l] = [Ended("swap") EXCEPT !.newServer = FreshServer]]
       ELSE loops' = [loops EXCEPT ![l] = [@ EXCEPT !.retryCount = @ + 1,
                                                    !.backoff = nextBackoff(@)]]
    /\ UNCHANGED <<hm, hcLoop, rcall>>

(* the swap as it would be if the flag were set first and the new
   server stored afterwards *)
LoopSwap_FlagFirst(l) ==
    /\ ~Crashed
    /\ loops[l].pc = "swap"
    /\ hm' = [hm EXCEPT !.isHealthy = TRUE]
    /\ loops' = [loops EXCEPT ![l] = Ended("flag")]
    /\ UNCHANGED <<hcLoop, rcall>>

(* reconnectLoop: m.server = newServer under m.mu *)
LoopSwap(l) ==
    /\ ~Crashed
    /\ loops[l].pc = "swap"
    /\ hm' = [hm EXCEPT !.server = loops[l].newServer]
    /\ loops' = [loops EXCEPT ![l] = Ended("flag")]
    /\ UNCHANGED <<hcLoop, rcall>>

(* reconnectLoop: m.isHealthy.Store(true) *)
LoopSetHealthy(l) ==
    /\ ~Crashed
    /\ loops[l].pc = "flag"
    /\ hm' = [hm EXCEPT !.isHealthy = TRUE]
    /\ loops' = [loops EXCEPT ![l].pc = "notify"]
    /\ UNCHANGED <<hcLoop, rcall>>

(* reconnectLoop: the non-blocking send on reconnectCh, then return;
   a send on the closed channel panics *)
LoopNotify(l) ==
    /\ ~Crashed
    /\ loops[l].pc = "notify"
    /\ IF hm.stopped
       THEN /\ loops' = [loops EXCEPT ![l].pc = "panic"]
            /\ UNCHANGED hm
       ELSE /\ loops' = [loops EXCEPT ![l] = NoLoop]
            /\ hm' = [hm EXCEPT !.reconnectCh = IF @ < 1 THEN @ + 1 ELSE @]
    /\ UNCHANGED <<hcLoop, rcall>>

(* healthCheckLoop: case <-ticker.C; performHealthCheck calls ListTools *)
HealthCheckTick ==
    /\ ~Crashed
    /\ hcLoop = "select"
    /\ hcLoop' = "probe"
    /\ UNCHANGED <<hm, loops, rcall>>

(* performHealthCheck: ListTools returned (ok when without error) *)
performHealthCheck(ok) ==
    /\ ~Crashed
    /\ hcLoop = "probe"
    /\ IF ~ok
       THEN IF hm.isHealthy
            THEN /\ CanTrigger(loops)
                 /\ hm' = [hm EXCEPT !.isHealthy = FALSE]
                 /\ loops' = triggerReconnect(loops)
            ELSE UNCHANGED <<hm, loops>>
       ELSE /\ hm' = [hm EXCEPT !.isHealthy = TRUE]
            /\ UNCHANGED loops
    /\ hcLoop' = "select"
    /\ UNCHANGED rcall

(* healthCheckLoop: case <-m.ctx.Done() *)
HealthCheckStop ==
    /\ ~Crashed
    /\ hcLoop = "select"
    /\ hm.stopped
    /\ hcLoop' = "exit"
    /\ UNCHANGED <<hm, loops, rcall>>

(* GetServer up to its select: the handle at once when healthy *)
GetServer(h, op) ==
    IF h.isHealthy
    THEN [pc |-> "call", op |-> op, server |-> h.server]
    ELSE [pc |-> "wait", op |-> op, server |-> NoServer]

(* ResilientMCPServer.ListTools / CallTool: GetServer *)
CallBegin(c, op) ==
    /\ ~Crashed
    /\ rcall[c].pc = "idle"
    /\ rcall' = [rcall EXCEPT ![c] = GetServer(hm, op)]
    /\ UNCHANGED <<hm, loops, hcLoop>>

(* ResilientMCPServer.Close: healthManager.Stop(), then GetServer;
   closing the closed channel panics *)
ResilientClose(c) ==
    /\ ~Crashed
    /\ rcall[c].pc = "idle"
    /\ IF hm.stopped
       THEN /\ rcall' = [rcall EXCEPT ![c] = [IdleCall EXCEPT !.pc = "panic"]]
            /\ UNCHANGED hm
       ELSE /\ hm' = [hm EXCEPT !.stopped = TRUE]
            /\ rcall' = [rcall EXCEPT ![c] = GetServer(hm, "Close")]
    /\ UNCHANGED <<loops, hcLoop>>

(* the select without its time.After case *)
SelectReady_NoTimer(h) ==
    (IF h.reconnectCh > 0 \/ h.stopped THEN {"reconnectCh"} ELSE {})
       \cup (IF h.stopped THEN {"ctxDone"} ELSE {})

(* the cases of GetServer's select that can proceed *)
SelectReady(h) ==
    (IF h.reconnectCh > 0 \/ h.stopped THEN {"reconnectCh"} ELSE {})
       \cup {"timeAfter"}
       \cup (IF h.stopped THEN {"ctxDone"} ELSE {})

(* GetServer: the select and what follows it *)
GetServerWait(c) ==
    /\ ~Crashed
    /\ rcall[c].pc = "wait"
    /\ \E case \in SelectReady(hm) :
         /\ hm' = IF case = "reconnectCh" /\ hm.reconnectCh > 0
                  THEN [hm EXCEPT !.reconnectCh = @ - 1]
                  ELSE hm
         /\ rcall' = [rcall EXCEPT ![c] =
               IF case = "reconnectCh" /\ hm.isHealthy
               THEN [@ EXCEPT !.pc = "call", !.server = hm.server]
               ELSE IdleCall]      \* one of the three errors
    /\ UNCHANGED <<loops, hcLoop>>

(* the call on the handle GetServer returned; a failed ListTools or
   CallTool marks the manager unhealthy and triggers a reconnect *)
ServerCall(c, ok) ==
    /\ ~Crashed
    /\ rcall[c].pc = "call"
    /\ IF ~ok /\ rcall[c].op \in ToolOps
       THEN /\ CanTrigger(loops)
            /\ hm' = [hm EXCEPT !.isHealthy = FALSE]
            /\ loops' = triggerReconnect(loops)
       ELSE UNCHANGED <<hm, loops>>
    /\ rcall' = [rcall EXCEPT ![c] = IdleCall]
    /\ UNCHANGED hcLoop

HealthNext ==
    \/ (\E l \in LoopIds : LoopExit(l)) /\ UNCHANGED <<mcpVars, taskVars, streamVars, hookVars, bufVars, lockVars, logVars, lazyVars>>
    \/ (\E l \in LoopIds : \E ok \in BOOLEAN : LoopAttempt(l, ok))
          /\ UNCHANGED <<mcpVars, taskVars, streamVars, hookVars, bufVars, lockVars, logVars, lazyVars>>
    \/ (\E l \in LoopIds : LoopSwap(l)) /\ UNCHANGED <<mcpVars, taskVars, streamVars, hookVars, bufVars, lockVars, logVars, lazyVars>>
    \/ (\E l \in LoopIds : LoopSetHealthy(l)) /\ UNCHANGED <<mcpVars, taskVars, streamVars, hookVars, bufVars, lockVars, logVars, lazyVars>>
    \/ (\E l \in LoopIds : LoopNotify(l)) /\ UNCHANGED <<mcpVars, taskVars, streamVars, hookVars, bufVars, lockVars, logVars, lazyVars>>
    \/ HealthCheckTick /\ UNCHANGED <<mcpVars, taskVars, streamVars, hookVars, bufVars, lockVars, logVars, lazyVars>>
    \/ (\E ok \in BOOLEAN : performHealthCheck(ok)) /\ UNCHANGED <<mcpVars, taskVars, streamVars, hookVars, bufVars, lockVars, logVars, lazyVars>>
    \/ HealthCheckStop /\ UNCHANGED <<mcpVars, taskVars, streamVars, hookVars, bufVars, lockVars, logVars, lazyVars>>
    \/ (\E c \in Callers : \E op \in ToolOps : CallBegin(c, op))
          /\ UNCHANGED <<mcpVars, taskVars, streamVars, hookVars, bufVars, lockVars, logVars, lazyVars>>
    \/ (\E c \in Callers : ResilientClose(c)) /\ UNCHANGED <<mcpVars, taskVars, streamVars, hookVars, bufVars, lockVars, logVars, lazyVars>>
    \/ (\E c \in Callers : GetServerWait(c)) /\ UNCHANGED <<mcpVars, taskVars, streamVars, hookVars, bufVars, lockVars, logVars, lazyVars>>
    \/ (\E c \in Callers : \E ok \in BOOLEAN : ServerCall(c, ok))
          /\ UNCHANGED <<mcpVars, taskVars, streamVars, hookVars, bufVars, lockVars, logVars, lazyVars>>

-----------------------------------------------------------------------------
(* WebhookHandler: message de-duplication in handleMessage *)

(* cacheSize: 1000 in NewWebhookHandler *)
cacheSize == 1000

Posts  == 1..NumPosts
MsgIds == 1..NumMsgIds

(* age of a msgCache entry: 0 within the last hour, 1 older than an hour *)
Fresh == 0
Stale == 1

(* a POST as handleMessage sees it: query parameters present, body readable,
   msg_signature equal to the computed signature, outcome of the
   decryption, decrypted payload accepted by ParseMessage *)
Requests == [params : BOOLEAN, body : BOOLEAN, sig : BOOLEAN,
             dec : {"ok", "error", "panic"}, parse : BOOLEAN]
NoRequest == [params |-> FALSE, body |-> FALSE, sig |-> FALSE,
              dec |-> "error", parse |-> FALSE]

IdlePost == [pc |-> "idle", msg |-> 0, reply |-> "none", req |-> NoRequest]

HookInit ==
    /\ msgCache = <<>>
    /\ post = [h \in Posts |-> IdlePost]
    /\ dispatched = [m \in MsgIds |-> 0]

(* isDuplicateMessage(msgID): the lookup under the read lock *)
isDuplicateMessage(cache, m) == m \in DOMAIN cache

(* recordMessage(msgID): prune entries older than an hour when the cache is
   over cacheSize, then store the id with the current time *)
recordMessage(cache, m) ==
    LET kept == IF Cardinality(DOMAIN cache) > cacheSize
                THEN {j \in DOMAIN cache : cache[j] = Fresh}
                ELSE DOMAIN cache
    IN [i \in kept \cup {m} |-> IF i = m THEN Fresh ELSE cache[i]]

(* handleMessage up to ParseMessage: the status with which the request is
   turned away, or "ok"; a panic inside DecryptMsg is answered 500 by the
   router's recovery handler *)
Verify_NoParseCheck(req) ==
    IF ~req.params THEN "400"
    ELSE IF ~req.body THEN "400"
    ELSE IF ~req.sig THEN "401"
    ELSE IF req.dec = "panic" THEN "500"
    ELSE IF req.dec = "error" THEN "401"
    ELSE "ok"

Verify(req) ==
    IF ~req.params THEN "400"
    ELSE IF ~req.body THEN "400"
    ELSE IF ~req.sig THEN "401"
    ELSE IF req.dec = "panic" THEN "500"
    ELSE IF req.dec = "error" THEN "401"
    ELSE IF ~req.parse THEN "400"
    ELSE "ok"

(* handleMessage: a POST arrives whose payload carries MsgID m; it is
   verified, decrypted and parsed, or answered with an error status *)
PostVerify(h, m, req) ==
    /\ post[h].pc = "idle"
    /\ IF Verify(req) = "ok"
       THEN post' = [post EXCEPT ![h] = [pc |-> "check", msg |-> m, reply |-> "none",
                                         req |-> req]]
       ELSE post' = [post EXCEPT ![h] = [IdlePost EXCEPT !.reply = Verify(req)]]
    /\ UNCHANGED <<msgCache, dispatched>>

(* handleMessage: the parsed message is checked against the cache; a
   duplicate is answered "success" at once *)
PostCheck(h, m) ==
    /\ post[h].pc = "check"
    /\ post[h].msg = m
    /\ IF isDuplicateMessage(msgCache, m)
       THEN post' = [post EXCEPT ![h] = [IdlePost EXCEPT !.msg = m, !.reply = "success"]]
       ELSE post' = [post EXCEPT ![h].pc = "record"]
    /\ UNCHANGED <<msgCache, dispatched>>

(* handleMessage: w.recordMessage(msg.MsgID) *)
PostRecord(h) ==
    /\ post[h].pc = "record"
    /\ msgCache' = recordMessage(msgCache, post[h].msg)
    /\ post' = [post EXCEPT ![h].pc = "handle"]
    /\ UNCHANGED dispatched

(* handleMessage: w.handler.HandleMessage / HandleStreamRefresh, then the
   reply: the encrypted response, "success" without one, 500 on error *)
PostHandle(h, r) ==
    /\ post[h].pc = "handle"
    /\ dispatched' = [dispatched EXCEPT ![post[h].msg] = @ + 1]
    /\ post' = [post EXCEPT ![h] = [IdlePost EXCEPT !.msg = post[h].msg, !.reply = r]]
    /\ UNCHANGED msgCache

(* an hour passes: every entry is now older than the cutoff *)
HookTick ==
    /\ \E i \in DOMAIN msgCache : msgCache[i] = Fresh
    /\ msgCache' = [i \in DOMAIN msgCache |-> Stale]
    /\ UNCHANGED <<post, dispatched>>

HookNext ==
    \/ (\E h \in Posts : \E m \in MsgIds : \E req \in Requests : PostVerify(h, m, req))
          /\ UNCHANGED <<mcpVars, taskVars, streamVars, healthVars, bufVars, lockVars, logVars, lazyVars>>
    \/ (\E h \in Posts : \E m \in MsgIds : PostCheck(h, m))
          /\ UNCHANGED <<mcpVars, taskVars, streamVars, healthVars, bufVars, lockVars, logVars, lazyVars>>
    \/ (\E h \in Posts : PostRecord(h))
          /\ UNCHANGED <<mcpVars, taskVars, streamVars, healthVars, bufVars, lockVars, logVars, lazyVars>>
    \/ (\E h \in Posts : \E r \in {"response", "success", "error"} : PostHandle(h, r))
          /\ UNCHANGED <<mcpVars, taskVars, streamVars, healthVars, bufVars, lockVars, logVars, lazyVars>>
    \/ HookTick /\ UNCHANGED <<mcpVars, taskVars, streamVars, healthVars, bufVars, lockVars, logVars, lazyVars>>

(* recordMessage on a cache that is already near cacheSize: the cache a
   long-running handler has after cacheSize - 1 or cacheSize messages, the
   oldest NumOld of them older than an hour *)
FullIds == 1..(cacheSize + NumExtra)

FullInit ==
    /\ \E n \in {cacheSize - 1, cacheSize} : \E k \in 0..NumOld :
          msgCache = [i \in 1..n |-> IF i <= k THEN Stale ELSE Fresh]
    /\ post = [h \in Posts |-> IdlePost]
    /\ dispatched = [m \in MsgIds |-> 0]

(* w.recordMessage(msgID) *)
RecordCall(m) ==
    /\ msgCache' = recordMessage(msgCache, m)
    /\ UNCHANGED <<post, dispatched>>

FullNext ==
    \/ (\E m \in FullIds : m >= cacheSize - 1 /\ RecordCall(m))
          /\ UNCHANGED <<mcpVars, taskVars, streamVars, healthVars, bufVars, lockVars, logVars, lazyVars>>
    \/ HookTick /\ UNCHANGED <<mcpVars, taskVars, streamVars, healthVars, bufVars, lockVars, logVars, lazyVars>>

-----------------------------------------------------------------------------
(* StreamBuffer in consuming mode, as the specification describes it: the
   repository's sources hold no StreamBuffer type *)

(* the texts a producer pushes; two of them concatenate to a third *)
Texts == {<<1>>, <<2>>, <<1, 1>>}

RECURSIVE Concat(_)
Concat(ch) == IF ch = <<>> THEN <<>> ELSE Head(ch) \o Concat(Tail(ch))

NewStreamBuffer == [chunks |-> <<>>, cursor |-> 0, producerDone |-> FALSE]

BufInit ==
    /\ sb = NewStreamBuffer
    /\ pushed = <<>>
    /\ readOut = <<>>

(* Push(text): append one chunk *)
Push(text) ==
    /\ ~sb.producerDone
    /\ Len(sb.chunks) < MaxPush
    /\ sb' = [sb EXCEPT !.chunks = Append(@, text)]
    /\ pushed' = pushed \o text
    /\ UNCHANGED readOut

(* SetProducerDone() *)
SetProducerDone ==
    /\ ~sb.producerDone
    /\ sb' = [sb EXCEPT !.producerDone = TRUE]
    /\ UNCHANGED <<pushed, readOut>>

(* IsDrained() *)
IsDrained(b) == b.cursor = Len(b.chunks)

(* ReadIncrement(): the chunks appended since the last read, the cursor
   moved past them *)
Increment(b) == Concat(SubSeq(b.chunks, b.cursor + 1, Len(b.chunks)))

ReadIncrement_NoAdvance ==
    /\ ~IsDrained(sb)
    /\ readOut' = readOut \o Increment(sb)
    /\ sb' = [sb EXCEPT !.cursor = @ + 1]
    /\ UNCHANGED pushed

ReadIncrement ==
    /\ ~IsDrained(sb)
    /\ readOut' = readOut \o Increment(sb)
    /\ sb' = [sb EXCEPT !.cursor = Len(sb.chunks)]
    /\ UNCHANGED pushed

BufNext ==
    \/ (\E text \in Texts : Push(text))
          /\ UNCHANGED <<mcpVars, taskVars, streamVars, healthVars, hookVars, lockVars, logVars, lazyVars>>
    \/ SetProducerDone /\ UNCHANGED <<mcpVars, taskVars, streamVars, healthVars, hookVars, lockVars, logVars, lazyVars>>
    \/ ReadIncrement /\ UNCHANGED <<mcpVars, taskVars, streamVars, healthVars, hookVars, lockVars, logVars, lazyVars>>

-----------------------------------------------------------------------------
(* StreamManager's locks (internal/wework/stream.go): sm.mutex and the
   mutex of every StreamState, as the operations take and release them *)

LockThreads == 1..NumLockThreads
LockStreams == 1..NumLockStreams
NoThread == 0

(* a sync.RWMutex: the goroutine holding it for writing, those holding it
   for reading, and those blocked in Lock(); a blocked Lock() keeps new
   readers out *)
FreeLock == [w |-> NoThread, r |-> {}, wait |-> {}]

CanRLock(l) == l.w = NoThread /\ l.wait = {}
RLocked(l, p) == [l EXCEPT !.r = @ \cup {p}]
RUnlocked(l, p) == [l EXCEPT !.r = @ \ {p}]
LockRequested(l, p) == [l EXCEPT !.wait = @ \cup {p}]
CanLock(l, p) == p \in l.wait /\ l.w = NoThread /\ l.r = {}
Locked(l, p) == [l EXCEPT !.w = p, !.wait = @ \ {p}]
Unlocked(l) == [l EXCEPT !.w = NoThread]

IdleThread == [pc |-> "idle", id |-> 0, todo |-> {}]

LockInit ==
    /\ smLock = FreeLock
    /\ stLock = [i \in LockStreams |-> FreeLock]
    /\ lmap = {}
    /\ lactive = [i \in LockStreams |-> TRUE]
    /\ nextL = 1
    /\ lt = [p \in LockThreads |-> IdleThread]

At(p, pc) == lt[p].pc = pc
Goto(p, pc) == lt' = [lt EXCEPT ![p].pc = pc]
Return(p) == lt' = [lt EXCEPT ![p] = IdleThread]

(* CreateStream: sm.mutex.Lock(); sm.streams[streamID] = state;
   sm.mutex.Unlock() *)
LCreateStream(p) ==
    \/ /\ At(p, "idle")
       /\ nextL <= NumLockStreams
       /\ lt' = [lt EXCEPT ![p] = [IdleThread EXCEPT !.pc = "create_lock", !.id = nextL]]
       /\ nextL' = nextL + 1
       /\ smLock' = LockRequested(smLock, p)
       /\ UNCHANGED <<stLock, lmap, lactive>>
    \/ /\ At(p, "create_lock")
       /\ CanLock(smLock, p)
       /\ smLock' = Locked(smLock, p)
       /\ Goto(p, "create_put")
       /\ UNCHANGED <<stLock, lmap, lactive, nextL>>
    \/ /\ At(p, "create_put")
       /\ lmap' = lmap \cup {lt[p].id}
       /\ smLock' = Unlocked(smLock)
       /\ Return(p)
       /\ UNCHANGED <<stLock, lactive, nextL>>

(* GetStream: sm.mutex.RLock(), deferred RUnlock; if the stream exists,
   state.mutex.Lock(), LastUpdate, state.mutex.Unlock() *)
LGetStream(p, i) ==
    \/ /\ At(p, "idle")
       /\ CanRLock(smLock)
       /\ smLock' = RLocked(smLock, p)
       /\ lt' = [lt EXCEPT ![p] = [IdleThread EXCEPT !.pc = "get_look", !.id = i]]
       /\ UNCHANGED <<stLock, lmap, lactive, nextL>>
    \/ /\ At(p, "get_look") /\ lt[p].id = i
       /\ IF i \notin lmap
          THEN /\ smLock' = RUnlocked(smLock, p)
               /\ Return(p)
               /\ UNCHANGED stLock
          ELSE /\ stLock' = [stLock EXCEPT ![i] = LockRequested(@, p)]
               /\ Goto(p, "get_stlock")
               /\ UNCHANGED smLock
       /\ UNCHANGED <<lmap, lactive, nextL>>
    \/ /\ At(p, "get_stlock") /\ lt[p].id = i
       /\ CanLock(stLock[i], p)
       /\ stLock' = [stLock EXCEPT ![i] = Locked(@, p)]
       /\ Goto(p, "get_touch")
       /\ UNCHANGED <<smLock, lmap, lactive, nextL>>
    \/ /\ At(p, "get_touch") /\ lt[p].id = i
       /\ stLock' = [stLock EXCEPT ![i] = Unlocked(@)]
       /\ smLock' = RUnlocked(smLock, p)
       /\ Return(p)
       /\ UNCHANGED <<lmap, lactive, nextL>>

(* DeleteStream: sm.mutex.Lock(), deferred Unlock; if the stream exists,
   state.mutex.Lock(), IsActive = false, state.mutex.Unlock(), delete *)
LDeleteStream(p, i) ==
    \/ /\ At(p, "idle")
       /\ smLock' = LockRequested(smLock, p)
       /\ lt' = [lt EXCEPT ![p] = [IdleThread EXCEPT !.pc = "del_lock", !.id = i]]
       /\ UNCHANGED <<stLock, lmap, lactive, nextL>>
    \/ /\ At(p, "del_lock") /\ lt[p].id = i
       /\ CanLock(smLock, p)
       /\ smLock' = Locked(smLock, p)
       /\ Goto(p, "del_look")
       /\ UNCHANGED <<stLock, lmap, lactive, nextL>>
    \/ /\ At(p, "del_look") /\ lt[p].id = i
       /\ IF i \notin lmap
          THEN /\ smLock' = Unlocked(smLock)
               /\ Return(p)
               /\ UNCHANGED stLock
          ELSE /\ stLock' = [stLock EXCEPT ![i] = LockRequested(@, p)]
               /\ Goto(p, "del_stlock")
               /\ UNCHANGED smLock
       /\ UNCHANGED <<lmap, lactive, nextL>>
    \/ /\ At(p, "del_stlock") /\ lt[p].id = i
       /\ CanLock(stLock[i], p)
       /\ stLock' = [stLock EXCEPT ![i] = Locked(@, p)]
       /\ Goto(p, "del_mark")
       /\ UNCHANGED <<smLock, lmap, lactive, nextL>>
    \/ /\ At(p, "del_mark") /\ lt[p].id = i
       /\ lactive' = [lactive EXCEPT ![i] = FALSE]
       /\ stLock' = [stLock EXCEPT ![i] = Unlocked(@)]
       /\ lmap' = lmap \ {i}
       /\ smLock' = Unlocked(smLock)
       /\ Return(p)
       /\ UNCHANGED nextL

(* UpdateStreamContent taking the state's mutex before it looks the
   stream up under sm.mutex *)
LUpdateStreamContent_StreamFirst(p, i, fin) ==
    \/ /\ At(p, "idle")
       /\ stLock' = [stLock EXCEPT ![i] = LockRequested(@, p)]
       /\ lt' = [lt EXCEPT ![p] = [IdleThread EXCEPT !.pc = "upd_stlock", !.id = i]]
       /\ UNCHANGED <<smLock, lmap, lactive, nextL>>
    \/ /\ At(p, "upd_stlock") /\ lt[p].id = i
       /\ CanLock(stLock[i], p)
       /\ stLock' = [stLock EXCEPT ![i] = Locked(@, p)]
       /\ Goto(p, "upd_look")
       /\ UNCHANGED <<smLock, lmap, lactive, nextL>>
    \/ /\ At(p, "upd_look") /\ lt[p].id = i
       /\ CanRLock(smLock)
       /\ smLock' = RLocked(smLock, p)
       /\ Goto(p, "upd_write")
       /\ UNCHANGED <<stLock, lmap, lactive, nextL>>
    \/ /\ At(p, "upd_write") /\ lt[p].id = i
       /\ \/ /\ fin /\ i \in lmap
             /\ lactive' = [lactive EXCEPT ![i] = FALSE]
          \/ /\ ~(fin /\ i \in lmap)
             /\ UNCHANGED lactive
       /\ smLock' = RUnlocked(smLock, p)
       /\ stLock' = [stLock EXCEPT ![i] = Unlocked(@)]
       /\ Return(p)
       /\ UNCHANGED <<lmap, nextL>>

(* UpdateStreamContent: sm.mutex.RLock(), lookup, sm.mutex.RUnlock(); if
   the stream exists, state.mutex.Lock(), deferred Unlock, write *)
LUpdateStreamContent(p, i, fin) ==
    \/ /\ At(p, "idle")
       /\ CanRLock(smLock)
       /\ smLock' = RLocked(smLock, p)
       /\ lt' = [lt EXCEPT ![p] = [IdleThread EXCEPT !.pc = "upd_look", !.id = i]]
       /\ UNCHANGED <<stLock, lmap, lactive, nextL>>
    \/ /\ At(p, "upd_look") /\ lt[p].id = i
       /\ smLock' = RUnlocked(smLock, p)
       /\ IF i \notin lmap
          THEN /\ Return(p)
               /\ UNCHANGED stLock
          ELSE /\ stLock' = [stLock EXCEPT ![i] = LockRequested(@, p)]
               /\ Goto(p, "upd_stlock")
       /\ UNCHANGED <<lmap, lactive, nextL>>
    \/ /\ At(p, "upd_stlock") /\ lt[p].id = i
       /\ CanLock(stLock[i], p)
       /\ stLock' = [stLock EXCEPT ![i] = Locked(@, p)]
       /\ Goto(p, "upd_write")
       /\ UNCHANGED <<smLock, lmap, lactive, nextL>>
    \/ /\ At(p, "upd_write") /\ lt[p].id = i
       /\ \/ /\ fin
             /\ lactive' = [lactive EXCEPT ![i] = FALSE]
          \/ /\ ~fin
             /\ UNCHANGED lactive
       /\ stLock' = [stLock EXCEPT ![i] = Unlocked(@)]
       /\ Return(p)
       /\ UNCHANGED <<smLock, lmap, nextL>>

(* GetActiveStreamCount: sm.mutex.RLock(), deferred RUnlock; for every
   stream state.mutex.RLock(), read IsActive, state.mutex.RUnlock() *)
LGetActiveStreamCount(p) ==
    \/ /\ At(p, "idle")
       /\ CanRLock(smLock)
       /\ smLock' = RLocked(smLock, p)
       /\ lt' = [lt EXCEPT ![p] = [IdleThread EXCEPT !.pc = "cnt_loop", !.todo = lmap]]
       /\ UNCHANGED <<stLock, lmap, lactive, nextL>>
    \/ /\ At(p, "cnt_loop")
       /\ \E i \in lt[p].todo :
            /\ CanRLock(stLock[i])
            /\ stLock' = [stLock EXCEPT ![i] = RLocked(@, p)]
            /\ lt' = [lt EXCEPT ![p].pc = "cnt_read", ![p].id = i]
       /\ UNCHANGED <<smLock, lmap, lactive, nextL>>
    \/ /\ At(p, "cnt_read")
       /\ stLock' = [stLock EXCEPT ![lt[p].id] = RUnlocked(@, p)]
       /\ lt' = [lt EXCEPT ![p].pc = "cnt_loop", ![p].id = 0,
                           ![p].todo = @ \ {lt[p].id}]
       /\ UNCHANGED <<smLock, lmap, lactive, nextL>>
    \/ /\ At(p, "cnt_loop")
       /\ lt[p].todo = {}
       /\ smLock' = RUnlocked(smLock, p)
       /\ Return(p)
       /\ UNCHANGED <<stLock, lmap, lactive, nextL>>

(* cleanupExpiredStreams, run by the one cleanupRoutine goroutine:
   sm.mutex.Lock(), deferred Unlock; for every stream state.mutex.RLock(),
   read LastUpdate and IsActive, state.mutex.RUnlock(), delete if expired
   or inactive *)
LCleanupExpiredStreams(p, expired) ==
    \/ /\ At(p, "idle")
       /\ \A q \in LockThreads : lt[q].pc \notin {"cln_lock", "cln_loop", "cln_read"}
       /\ smLock' = LockRequested(smLock, p)
       /\ Goto(p, "cln_lock")
       /\ UNCHANGED <<stLock, lmap, lactive, nextL>>
    \/ /\ At(p, "cln_lock")
       /\ CanLock(smLock, p)
       /\ smLock' = Locked(smLock, p)
       /\ lt' = [lt EXCEPT ![p].pc = "cln_loop", ![p].todo = lmap]
       /\ UNCHANGED <<stLock, lmap, lactive, nextL>>
    \/ /\ At(p, "cln_loop")
       /\ \E i \in lt[p].todo :
            /\ CanRLock(stLock[i])
            /\ stLock' = [stLock EXCEPT ![i] = RLocked(@, p)]
            /\ lt' = [lt EXCEPT ![p].pc = "cln_read", ![p].id = i]
       /\ UNCHANGED <<smLock, lmap, lactive, nextL>>
    \/ /\ At(p, "cln_read")
       /\ stLock' = [stLock EXCEPT ![lt[p].id] = RUnlocked(@, p)]
       /\ lmap' = IF expired \/ ~lactive[lt[p].id] THEN lmap \ {lt[p].id} ELSE lmap
       /\ lt' = [lt EXCEPT ![p].pc = "cln_loop", ![p].id = 0,
                           ![p].todo = @ \ {lt[p].id}]
       /\ UNCHANGED <<smLock, lactive, nextL>>
    \/ /\ At(p, "cln_loop")
       /\ lt[p].todo = {}
       /\ smLock' = Unlocked(smLock)
       /\ Return(p)
       /\ UNCHANGED <<stLock, lmap, lactive, nextL>>

(* one step of goroutine p inside the StreamManager *)
LockStep(p) ==
    \/ LCreateStream(p)
    \/ \E i \in LockStreams : LGetStream(p, i)
    \/ \E i \in LockStreams : LDeleteStream(p, i)
    \/ \E i \in LockStreams : \E fin \in BOOLEAN : LUpdateStreamContent(p, i, fin)
    \/ LGetActiveStreamCount(p)
    \/ \E expired \in BOOLEAN : LCleanupExpiredStreams(p, expired)

LockNext ==
    \/ (\E p \in LockThreads : LCreateStream(p)) /\ UNCHANGED <<mcpVars, taskVars, streamVars, healthVars, hookVars, bufVars, logVars, lazyVars>>
    \/ (\E p \in LockThreads : \E i \in LockStreams : LGetStream(p, i)) /\ UNCHANGED <<mcpVars, taskVars, streamVars, healthVars, hookVars, bufVars, logVars, lazyVars>>
    \/ (\E p \in LockThreads : \E i \in LockStreams : LDeleteStream(p, i)) /\ UNCHANGED <<mcpVars, taskVars, streamVars, healthVars, hookVars, bufVars, logVars, lazyVars>>
    \/ (\E p \in LockThreads : \E i \in LockStreams : \E fin \in BOOLEAN :
            LUpdateStreamContent(p, i, fin)) /\ UNCHANGED <<mcpVars, taskVars, streamVars, healthVars, hookVars, bufVars, logVars, lazyVars>>
    \/ (\E p \in LockThreads : LGetActiveStreamCount(p)) /\ UNCHANGED <<mcpVars, taskVars, streamVars, healthVars, hookVars, bufVars, logVars, lazyVars>>
    \/ (\E p \in LockThreads : \E expired \in BOOLEAN : LCleanupExpiredStreams(p, expired))
          /\ UNCHANGED <<mcpVars, taskVars, streamVars, healthVars, hookVars, bufVars, logVars, lazyVars>>

-----------------------------------------------------------------------------
(* ChatLogger (internal/bot/logger.go): LogMessage callers, the processLogs
   and maintenance goroutines, Close; one conversation *)

Loggers == 1..NumLoggers
Entries == 1..MaxEntries

(* processLogs: its batch, the entries writeEntries still has to write, and
   whether this is the write before it returns *)
NewProcessLogs == [pc |-> "select", batch |-> <<>>, todo |-> <<>>,
                   final |-> FALSE, raced |-> FALSE]

IdleLogger == [pc |-> "idle", entry |-> 0]

LogInit ==
    /\ logQueue = <<>>
    /\ queueClosed = FALSE
    /\ shutdownCh = FALSE
    /\ totalLogged = 0
    /\ totalDropped = 0
    /\ completed = 0
    /\ accepted = <<>>
    /\ written = <<>>
    /\ lw = NewProcessLogs
    /\ maint = "select"
    /\ closer = [pc |-> "none", seen |-> <<>>]
    /\ lg = [p \in Loggers |-> IdleLogger]
    /\ nextEntry = 1

(* LogMessage: the select with the send on logQueue and the default
   branch, taken without counting the dropped entry *)
LogMessageSelect_Uncounted(p) ==
    /\ lg[p].pc = "idle"
    /\ nextEntry <= MaxEntries
    /\ nextEntry' = nextEntry + 1
    /\ IF queueClosed
       THEN /\ lg' = [lg EXCEPT ![p] = [pc |-> "panic", entry |-> nextEntry]]
            /\ UNCHANGED <<logQueue, accepted, totalDropped, completed>>
       ELSE IF Len(logQueue) < QueueCap
            THEN /\ logQueue' = Append(logQueue, nextEntry)
                 /\ accepted' = Append(accepted, nextEntry)
                 /\ lg' = [lg EXCEPT ![p] = [pc |-> "sent", entry |-> nextEntry]]
                 /\ UNCHANGED <<totalDropped, completed>>
            ELSE /\ completed' = completed + 1
                 /\ lg' = [lg EXCEPT ![p] = IdleLogger]
                 /\ UNCHANGED <<logQueue, accepted, totalDropped>>
    /\ UNCHANGED <<queueClosed, shutdownCh, totalLogged, written, lw, maint, closer>>

(* LogMessage: the select: the entry is sent on logQueue, or, the queue
   being full, counted in totalDropped and the call returns; a send on the
   closed channel panics *)
LogMessageSelect(p) ==
    /\ lg[p].pc = "idle"
    /\ nextEntry <= MaxEntries
    /\ nextEntry' = nextEntry + 1
    /\ IF queueClosed
       THEN /\ lg' = [lg EXCEPT ![p] = [pc |-> "panic", entry |-> nextEntry]]
            /\ UNCHANGED <<logQueue, accepted, totalDropped, completed>>
       ELSE IF Len(logQueue) < QueueCap
            THEN /\ logQueue' = Append(logQueue, nextEntry)
                 /\ accepted' = Append(accepted, nextEntry)
                 /\ lg' = [lg EXCEPT ![p] = [pc |-> "sent", entry |-> nextEntry]]
                 /\ UNCHANGED <<totalDropped, completed>>
            ELSE /\ totalDropped' = totalDropped + 1
                 /\ completed' = completed + 1
                 /\ lg' = [lg EXCEPT ![p] = IdleLogger]
                 /\ UNCHANGED <<logQueue, accepted>>
    /\ UNCHANGED <<queueClosed, shutdownCh, totalLogged, written, lw, maint, closer>>

(* LogMessage: atomic.AddUint64(&cl.totalLogged, 1); return nil *)
LogMessageCount(p) ==
    /\ lg[p].pc = "sent"
    /\ totalLogged' = totalLogged + 1
    /\ completed' = completed + 1
    /\ lg' = [lg EXCEPT ![p] = IdleLogger]
    /\ UNCHANGED <<logQueue, queueClosed, shutdownCh, totalDropped, accepted, written,
                   lw, maint, closer, nextEntry>>

(* shouldFlush: the batch holds batchSize entries *)
shouldFlush(batch) == Len(batch) >= BatchCap

(* writeBatches(batch) is entered *)
StartWrite(w, entries, final) ==
    [w EXCEPT !.pc = "open", !.batch = <<>>, !.todo = entries, !.final = final]

(* writeEntries has returned: back to the select, or processLogs returns *)
EndWrite(w) ==
    [w EXCEPT !.pc = IF w.final THEN "exit" ELSE "select", !.todo = <<>>,
              !.raced = FALSE]

(* processLogs: an entry is received from logQueue and added to the batch *)
ProcessReceive ==
    /\ lw.pc = "select"
    /\ logQueue # <<>>
    /\ logQueue' = Tail(logQueue)
    /\ LET batch == Append(lw.batch, Head(logQueue))
       IN lw' = IF shouldFlush(batch) THEN StartWrite(lw, batch, FALSE)
                ELSE [lw EXCEPT !.batch = batch]
    /\ UNCHANGED <<queueClosed, shutdownCh, totalLogged, totalDropped, completed,
                   accepted, written, maint, closer, lg, nextEntry>>

(* processLogs: the flush ticker fires with a non-empty batch *)
ProcessTick ==
    /\ lw.pc = "select"
    /\ lw.batch # <<>>
    /\ lw' = StartWrite(lw, lw.batch, FALSE)
    /\ UNCHANGED <<logQueue, queueClosed, shutdownCh, totalLogged, totalDropped,
                   completed, accepted, written, maint, closer, lg, nextEntry>>

(* processLogs: shutdownCh is closed: close(cl.logQueue), the queue is
   drained into the batch, the batch is written *)
ProcessShutdown ==
    /\ lw.pc = "select"
    /\ shutdownCh
    /\ queueClosed' = TRUE
    /\ logQueue' = <<>>
    /\ lw' = StartWrite(lw, lw.batch \o logQueue, TRUE)
    /\ UNCHANGED <<shutdownCh, totalLogged, totalDropped, completed, accepted,
                   written, maint, closer, lg, nextEntry>>

(* writeEntries: getOrCreateLogFile succeeds or fails; with no entry in
   the batch writeBatches calls nothing *)
WriteOpen(ok) ==
    /\ lw.pc = "open"
    /\ lw' = IF lw.todo = <<>> \/ ~ok THEN EndWrite(lw)
             ELSE [lw EXCEPT !.pc = "line"]
    /\ UNCHANGED <<logQueue, queueClosed, shutdownCh, totalLogged, totalDropped,
                   completed, accepted, written, maint, closer, lg, nextEntry>>

(* writeEntries: lf.writer.WriteString(logLine) is entered *)
WriteStringBegin ==
    /\ lw.pc = "line"
    /\ lw' = [lw EXCEPT !.pc = "mid", !.raced = FALSE]
    /\ UNCHANGED <<logQueue, queueClosed, shutdownCh, totalLogged, totalDropped,
                   completed, accepted, written, maint, closer, lg, nextEntry>>

(* what a WriteString can leave in the writer: the line, or an error that
   ends the loop; a Flush of the same bufio.Writer by the maintenance
   goroutine during the call is a data race, after which the line may
   also be missing or be there twice *)
WriteOutcomes(raced) ==
    IF raced THEN {"ok", "error", "lost", "dup"} ELSE {"ok", "error"}

(* writeEntries: WriteString returns *)
WriteStringEnd(outcome) ==
    /\ lw.pc = "mid"
    /\ outcome \in WriteOutcomes(lw.raced)
    /\ written' = CASE outcome = "ok" -> Append(written, Head(lw.todo))
                    [] outcome = "dup" -> written \o <<Head(lw.todo), Head(lw.todo)>>
                    [] OTHER -> written
    /\ lw' = IF outcome = "error" \/ Tail(lw.todo) = <<>> THEN EndWrite(lw)
             ELSE [lw EXCEPT !.pc = "line", !.todo = Tail(@), !.raced = FALSE]
    /\ UNCHANGED <<logQueue, queueClosed, shutdownCh, totalLogged, totalDropped,
                   completed, accepted, maint, closer, lg, nextEntry>>

(* maintenance: the 30-second ticker fires, flushAllFiles calls
   lf.writer.Flush() under the read lock of fileMutex; it meets
   processLogs inside WriteString on the same writer, which holds no lock *)
MaintFlush ==
    /\ maint = "select"
    /\ lw.pc = "mid"
    /\ ~lw.raced
    /\ lw' = [lw EXCEPT !.raced = TRUE]
    /\ UNCHANGED <<logQueue, queueClosed, shutdownCh, totalLogged, totalDropped,
                   completed, accepted, written, maint, closer, lg, nextEntry>>

(* maintenance: shutdownCh is closed *)
MaintShutdown ==
    /\ maint = "select"
    /\ shutdownCh
    /\ maint' = "exit"
    /\ UNCHANGED <<logQueue, queueClosed, shutdownCh, totalLogged, totalDropped,
                   completed, accepted, written, lw, closer, lg, nextEntry>>

(* the entries LogMessage has accepted and counted, in the order of their
   sends *)
Counted ==
    SelectSeq(accepted, LAMBDA e : \A p \in Loggers : ~(lg[p].pc = "sent" /\ lg[p].entry = e))

(* Close is called: close(cl.shutdownCh) *)
CloseBegin ==
    /\ closer.pc = "none"
    /\ shutdownCh' = TRUE
    /\ closer' = [pc |-> "wait", seen |-> Counted]
    /\ UNCHANGED <<logQueue, queueClosed, totalLogged, totalDropped, completed,
                   accepted, written, lw, maint, lg, nextEntry>>

(* Close: cl.workerWG.Wait() returns, the files are flushed and closed,
   Close returns *)
CloseReturn ==
    /\ closer.pc = "wait"
    /\ lw.pc = "exit"
    /\ maint = "exit"
    /\ closer' = [closer EXCEPT !.pc = "done"]
    /\ UNCHANGED <<logQueue, queueClosed, shutdownCh, totalLogged, totalDropped,
                   completed, accepted, written, lw, maint, lg, nextEntry>>

LogNext ==
    \/ (\E p \in Loggers : LogMessageSelect(p)) /\ UNCHANGED <<mcpVars, taskVars, streamVars, healthVars, hookVars, bufVars, lockVars, lazyVars>>
    \/ (\E p \in Loggers : LogMessageCount(p)) /\ UNCHANGED <<mcpVars, taskVars, streamVars, healthVars, hookVars, bufVars, lockVars, lazyVars>>
    \/ ProcessReceive /\ UNCHANGED <<mcpVars, taskVars, streamVars, healthVars, hookVars, bufVars, lockVars, lazyVars>>
    \/ ProcessTick /\ UNCHANGED <<mcpVars, taskVars, streamVars, healthVars, hookVars, bufVars, lockVars, lazyVars>>
    \/ ProcessShutdown /\ UNCHANGED <<mcpVars, taskVars, streamVars, healthVars, hookVars, bufVars, lockVars, lazyVars>>
    \/ (\E ok \in BOOLEAN : WriteOpen(ok)) /\ UNCHANGED <<mcpVars, taskVars, streamVars, healthVars, hookVars, bufVars, lockVars, lazyVars>>
    \/ WriteStringBegin /\ UNCHANGED <<mcpVars, taskVars, streamVars, healthVars, hookVars, bufVars, lockVars, lazyVars>>
    \/ (\E outcome \in {"ok", "error", "lost", "dup"} : WriteStringEnd(outcome))
          /\ UNCHANGED <<mcpVars, taskVars, streamVars, healthVars, hookVars, bufVars, lockVars, lazyVars>>
    \/ MaintFlush /\ UNCHANGED <<mcpVars, taskVars, streamVars, healthVars, hookVars, bufVars, lockVars, lazyVars>>
    \/ MaintShutdown /\ UNCHANGED <<mcpVars, taskVars, streamVars, healthVars, hookVars, bufVars, lockVars, lazyVars>>
    \/ CloseBegin /\ UNCHANGED <<mcpVars, taskVars, streamVars, healthVars, hookVars, bufVars, lockVars, lazyVars>>
    \/ CloseReturn /\ UNCHANGED <<mcpVars, taskVars, streamVars, healthVars, hookVars, bufVars, lockVars, lazyVars>>

-----------------------------------------------------------------------------
(* LazyMCPServer (examples/streaming-mcp-chat, per-call connections):
   every operation runs inside executeWithFreshConnection *)

LazyCallers == 1..NumLazyCallers
LazyOps == {"Initialize", "ListTools", "CallTool"}

IdleLazy == [pc |-> "idle", op |-> "none", server |-> NoConn, err |-> FALSE]

LazyInit ==
    /\ lazy = [p \in LazyCallers |-> IdleLazy]
    /\ lzOpen = {}
    /\ lzOpened = 0
    /\ lzClosed = 0

(* Initialize / ListTools / CallTool enter executeWithFreshConnection *)
LazyBegin(p, op) ==
    /\ lazy[p].pc = "idle"
    /\ lzOpened < MaxLazyConns
    /\ lazy' = [lazy EXCEPT ![p] = [IdleLazy EXCEPT !.pc = "connect", !.op = op]]
    /\ UNCHANGED <<lzOpen, lzOpened, lzClosed>>

(* createFreshConnection: mcp.NewHTTPServer returns a server or an error;
   on an error executeWithFreshConnection returns it *)
createFreshConnection(p, up) ==
    /\ lazy[p].pc = "connect"
    /\ IF up
       THEN /\ lzOpened' = lzOpened + 1
            /\ lzOpen' = lzOpen \cup {lzOpened + 1}
            /\ lazy' = [lazy EXCEPT ![p].pc = "operate", ![p].server = lzOpened + 1]
       ELSE /\ lazy' = [lazy EXCEPT ![p] = [IdleLazy EXCEPT !.op = lazy[p].op, !.err = TRUE]]
            /\ UNCHANGED <<lzOpen, lzOpened>>
    /\ UNCHANGED lzClosed

(* operation(server) returning without the deferred close having been
   registered: an error returns at once *)
LazyOperate_NoDefer(p, ok) ==
    /\ lazy[p].pc = "operate"
    /\ lazy' = IF ok THEN [lazy EXCEPT ![p].pc = "defer", ![p].err = FALSE]
               ELSE [lazy EXCEPT ![p] = [IdleLazy EXCEPT !.op = lazy[p].op,
                                                         !.server = lazy[p].server,
                                                         !.err = TRUE]]
    /\ UNCHANGED <<lzOpen, lzOpened, lzClosed>>

(* result, err := operation(server): the operation succeeds, fails or
   panics; the deferred function runs next in every case *)
LazyOperate(p, ok) ==
    /\ lazy[p].pc = "operate"
    /\ lazy' = [lazy EXCEPT ![p].pc = "defer", ![p].err = ~ok]
    /\ UNCHANGED <<lzOpen, lzOpened, lzClosed>>

(* the deferred server.Close(), then executeWithFreshConnection returns *)
LazyDeferredClose(p) ==
    /\ lazy[p].pc = "defer"
    /\ lzOpen' = lzOpen \ {lazy[p].server}
    /\ lzClosed' = lzClosed + 1
    /\ lazy' = [lazy EXCEPT ![p].pc = "idle"]
    /\ UNCHANGED lzOpened

LazyNext ==
    \/ (\E p \in LazyCallers : \E op \in LazyOps : LazyBegin(p, op)) /\ UNCHANGED <<mcpVars, taskVars, streamVars, healthVars, hookVars, bufVars, lockVars, logVars>>
    \/ (\E p \in LazyCallers : \E up \in BOOLEAN : createFreshConnection(p, up))
          /\ UNCHANGED <<mcpVars, taskVars, streamVars, healthVars, hookVars, bufVars, lockVars, logVars>>
    \/ (\E p \in LazyCallers : \E ok \in BOOLEAN : LazyOperate(p, ok)) /\ UNCHANGED <<mcpVars, taskVars, streamVars, healthVars, hookVars, bufVars, lockVars, logVars>>
    \/ (\E p \in LazyCallers : LazyDeferredClose(p)) /\ UNCHANGED <<mcpVars, taskVars, streamVars, healthVars, hookVars, bufVars, lockVars, logVars>>

-----------------------------------------------------------------------------
(* Specifications: each part runs with the other parts at rest *)

Init == MCPInit /\ TaskInit /\ StreamInit /\ HealthInit /\ HookInit /\ BufInit /\ LockInit /\ LogInit /\ LazyInit

SpecMCP == Init /\ [][MCPNext]_vars

SpecNoCache == Init /\ [][NoCacheNext]_vars

SpecTask == Init /\ [][TaskNext]_vars

SpecStream == Init /\ [][StreamNext]_vars

SpecHealth == Init /\ [][HealthNext]_vars

SpecHook == Init /\ [][HookNext]_vars

SpecBuffer == Init /\ [][BufNext]_vars

SpecLocks == Init /\ [][LockNext]_vars

(* the service after cacheSize messages have been recorded *)
InitFullCache ==
    /\ MCPInit /\ TaskInit /\ StreamInit /\ HealthInit /\ FullInit /\ BufInit /\ LockInit
    /\ LogInit /\ LazyInit

SpecFullCache == InitFullCache /\ [][FullNext]_vars

SpecLogger == Init /\ [][LogNext]_vars

SpecLazy == Init /\ [][LazyNext]_vars

(* a caller in GetServer's select is scheduled again: its timer fires *)
SpecHealthFair == SpecHealth /\ \A c \in Callers : WF_healthVars(GetServerWait(c))

-----------------------------------------------------------------------------
(* Claims about SessionMCPManager (SpecMCP) *)

(* a CallTool invocation that reached the tool server and got a response *)
Executed(p) ==
    /\ call[p].op = "CallTool"
    /\ call[p].pc \in {"store", "idle"}
    /\ ~call[p].err
    /\ call[p].response # NoResp

Raced(p, q) == p # q /\ q \in call[p].peers /\ p \in call[q].peers

(* C1: of the CallTool invocations with one fingerprint that are in flight
   together, each having found no cache entry, at most one executes
   CallTool on the underlying server. *)
C1_DedupAtMostOnce ==
    \A p, q \in Procs : Raced(p, q) => ~(Executed(p) /\ Executed(q))

Succeeded(p) ==
    /\ call[p].op = "CallTool" /\ call[p].pc = "idle"
    /\ ~call[p].err /\ call[p].response # NoResp

(* C2: CallTool invocations with one fingerprint that raced on an empty
   cache and all succeeded have returned the same response object. *)
C2_RacersSameResponse ==
    \A p, q \in Procs :
        (Raced(p, q) /\ Succeeded(p) /\ Succeeded(q))
            => call[p].response = call[q].response

(* a step of s.ensureConnection made by goroutine p *)
EnsureAction(p, up) ==
    \/ CallToolEnsure(p, up)
    \/ ListToolsEnsure(p, up)
    \/ InitializeEnsure(p, up)

Active(m) == m.connection # NoConn /\ m.sessionActive

ReusesConnection(p) ==
    /\ call'[p].pc = "call"
    /\ call'[p].server = mgr.connection
    /\ mgr'.connection = mgr.connection
    /\ mgr'.created = mgr.created
    /\ mgr'.closed = mgr.closed

(* C6 as stated: inside the window with a passing probe the same connection
   is returned and none is created; past the window the old connection is
   closed and exactly one new connection is created. *)
C6_ReuseWindowAsStated ==
    [][\A p \in Procs, up \in BOOLEAN :
         (EnsureAction(p, up) /\ Active(mgr)) =>
            /\ (mgr.sinceActivity <= ReuseWindow /\ linkOk) => ReusesConnection(p)
            /\ (mgr.sinceActivity > ReuseWindow) =>
                  /\ mgr.connection \in mgr'.closed
                  /\ mgr'.created = mgr.created + 1]_vars

(* C6 amended: past the window the old connection is closed and one connect
   is attempted; when it succeeds exactly one new connection is created and
   returned, when it fails none is created and the error is returned. *)
C6_ReuseWindow ==
    [][\A p \in Procs, up \in BOOLEAN :
         (EnsureAction(p, up) /\ Active(mgr)) =>
            /\ (mgr.sinceActivity <= ReuseWindow /\ linkOk) => ReusesConnection(p)
            /\ (mgr.sinceActivity > ReuseWindow) =>
                  /\ mgr.connection \in mgr'.closed
                  /\ mgr'.closed = mgr.closed \cup {mgr.connection}
                  /\ IF up
                     THEN /\ mgr'.created = mgr.created + 1
                          /\ mgr'.connection = mgr.created + 1
                          /\ call'[p].pc = "call"
                          /\ call'[p].server = mgr.created + 1
                     ELSE /\ mgr'.created = mgr.created
                          /\ mgr'.connection = NoConn
                          /\ call'[p].pc = "idle" /\ call'[p].err]_vars

C6_Witness ==
    \E p, q \in Procs :
        /\ call[p].pc = "call" /\ call[p].via = "expired"
        /\ call[p].server = mgr.connection /\ mgr.closed = {1}
        /\ call[q].pc = "call" /\ call[q].via = "reuse"
        /\ call[q].server = mgr.connection

OpenConns(m) == (1..m.created) \ m.closed

(* C7: the manager never has more than one connection that it created and
   has not closed. *)
C7_AtMostOneOpen == Cardinality(OpenConns(mgr)) <= 1

C7_Witness ==
    /\ mgr.created = 2 /\ mgr.closed = {1} /\ mgr.connection = 2
    /\ \E p \in Procs : call[p].pc = "call" /\ call[p].server = 1

(* C19: Close without an active connection closes no server and leaves
   the manager without a connection; Close with an active connection
   closes that connection, which was not closed before, and empties the
   call cache; a second Close right after the first changes nothing. *)
C19_CloseFrame ==
    [][\A p \in Procs :
         Close(p)
            => /\ mgr'.connection = NoConn
               /\ ~mgr'.sessionActive
               /\ mgr'.callCache = EmptyCache
               /\ mgr'.created = mgr.created
               /\ mgr.connection = NoConn => mgr'.closed = mgr.closed
               /\ mgr.connection # NoConn
                     => /\ mgr.connection \notin mgr.closed
                        /\ mgr'.closed = mgr.closed \cup {mgr.connection}
               /\ cleanupConnection(mgr') = mgr']_vars

(* Close has closed the one connection made so far, which had a cached
   response *)
C19_Witness ==
    /\ \E p \in Procs : call[p].pc = "idle" /\ call[p].op = "Close"
    /\ mgr.created = 1 /\ mgr.closed = {1} /\ mgr.connection = NoConn
    /\ nextResp > 1
    /\ \A p \in Procs : call[p].pc = "idle"

(* C22: a response that CallTool writes into callCache was obtained
   through a connection the manager has not torn down, so after a
   teardown the cache holds no response of an earlier connection. *)
C22_NoStaleCacheEntry ==
    [][\A p \in Procs :
         (CallToolStore(p) /\ mgr'.callCache # mgr.callCache)
            => call[p].server \notin mgr.closed]_vars

(* C23: when creating a connection fails inside ensureConnection the
   caller gets the error and the manager is left without a connection
   (connection nil, sessionActive false); an ensureConnection that finds
   the manager without a connection connects afresh: it returns a newly
   created connection or an error, never a connection closed before. *)
C23_FailedConnectLeavesNone ==
    [][\A p \in Procs :
         /\ ((\E up \in BOOLEAN : EnsureAction(p, up)) /\ call'[p].pc = "idle")
               => /\ call'[p].err
                  /\ call'[p].server = NoConn
                  /\ mgr'.connection = NoConn
                  /\ ~mgr'.sessionActive
                  /\ mgr'.created = mgr.created
         /\ ((\E up \in BOOLEAN : EnsureAction(p, up)) /\ ~Active(mgr)
                                                      /\ call'[p].pc = "call")
               => /\ call'[p].server = mgr.created + 1
                  /\ call'[p].server \notin mgr'.closed
                  /\ mgr'.connection = call'[p].server
                  /\ mgr'.sessionActive]_vars

(* a connect failed after the expired connection had been torn down *)
C23_Witness ==
    /\ \E p \in Procs : call[p].pc = "idle" /\ call[p].err /\ call[p].op = "ListTools"
    /\ mgr.created = 1 /\ mgr.closed = {1}
    /\ mgr.connection = NoConn /\ ~mgr.sessionActive
    /\ mgr.sinceActivity > ReuseWindow

(* a step in which goroutine p's CallTool returns a response *)
CallToolReturns(p) ==
    \/ /\ \E n \in ToolNames : \E a \in ArgVals : CallToolBegin(p, n, a)
       /\ call'[p].pc = "idle"
    \/ CallToolStore(p)

(* C24: when a CallTool invocation returns successfully, lastActivity is
   the time of that return: nothing has elapsed since the last activity. *)
C24_SuccessRefreshesActivity ==
    [][\A p \in Procs : CallToolReturns(p) => mgr'.sinceActivity = 0]_vars

-----------------------------------------------------------------------------
(* Claims about TaskCacheManager and its handler (SpecTask) *)

(* the AI text inside a returned answer: what follows "AI回复:" *)
AIContent(text) ==
    IF Len(text) >= 2 /\ text[2] = TokAI THEN SubSeq(text, 3, Len(text)) ELSE <<>>

(* C3: IsTaskFinish does not return true for a registered task while the
   task's worker is still reading the agent's event stream. *)
C3_NoFinishWhileStreaming ==
    [][\A q \in Pollers :
         (IsTaskFinish(q) /\ poller[q].id \in registry
                          /\ worker[poller[q].id] = "stream")
            => ~resp'[poller[q].id].finish]_vars

(* C4: a stream response with finish=true carries everything the worker
   has appended to the task, and once such a response has been returned
   the worker appends nothing more. *)
C4_FinishedResponseComplete ==
    [][/\ \A q \in Pollers :
            (IsTaskFinish(q) /\ poller[q].id \in registry
                             /\ resp'[poller[q].id].finish)
               => AIContent(resp'[poller[q].id].answer) = tasks[poller[q].id].Content
       /\ \A t \in TaskIds :
            (t \in registry /\ resp[t].finish) => tasks'[t].Content = tasks[t].Content]_vars

(* the task's worker got an error from RunStream *)
RunStreamFailed(t) == \E i \in 1..Len(t.Content) : t.Content[i] = TokFailed

(* C14 as stated: the AI content of every answer GetAnswer returns for a
   registered task is the concatenation, in arrival order, of the
   non-empty event contents the task's worker has received so far. *)
C14_AnswerIsReceivedAsStated ==
    [][\A q \in Pollers :
         (GetAnswer(q) /\ poller[q].id \in registry)
            => AIContent(poller'[q].answer) = tasks[poller[q].id].Received]_vars

(* C14: the AI content of every answer GetAnswer returns for a registered
   task is the concatenation, in arrival order, of the non-empty event
   contents the task's worker has received so far, unless RunStream
   failed: then it is the failure message alone. *)
C14_AnswerIsReceived ==
    [][\A q \in Pollers :
         (GetAnswer(q) /\ poller[q].id \in registry)
            => AIContent(poller'[q].answer)
                 = IF RunStreamFailed(tasks[poller[q].id])
                   THEN <<TokFailed>>
                   ELSE tasks[poller[q].id].Received]_vars

(* a poll has fetched an answer that carries two increments *)
C14_Witness ==
    \E q \in Pollers :
       /\ poller[q].pc = "finish"
       /\ poller[q].id \in registry
       /\ Len(tasks[poller[q].id].Received) = 2
       /\ AIContent(poller[q].answer) = tasks[poller[q].id].Received

IsPrefix(a, b) == Len(a) <= Len(b) /\ SubSeq(b, 1, Len(a)) = a

(* C15: the text a poll returns for a task has the text the previous poll
   of the same task returned as a prefix. *)
C15_PollsFormPrefixChain ==
    [][\A q \in Pollers :
         (/\ IsTaskFinish(q)
          /\ poller[q].id \in registry
          /\ resp[poller[q].id] # NoResponse
          /\ <<TokMissing>> \notin {resp[poller[q].id].answer, poller[q].answer})
            => IsPrefix(resp[poller[q].id].answer, resp'[poller[q].id].answer)]_vars

FailureAnswer == <<TokQuestion, TokAI, TokFailed>>

(* C17: when RunStream returns an error the worker stores the failure
   message as the task's content, marks the task finished and ends; a
   poll of the still registered task made after that returns the message
   with finish=true; the worker never runs the generation again and the
   content stays as it is. *)
C17_FailureShownAndFinal ==
    [][/\ \A t \in TaskIds :
            WorkerRunStream(t, FALSE)
               => /\ tasks'[t].Content = <<TokFailed>>
                  /\ tasks'[t].IsFinished
                  /\ worker'[t] = "exit"
       /\ \A q \in Pollers :
            (GetAnswer(q) /\ poller[q].id \in registry
                          /\ RunStreamFailed(tasks[poller[q].id]))
               => poller'[q].answer = FailureAnswer
       /\ \A q \in Pollers :
            (IsTaskFinish(q) /\ poller[q].id \in registry
                             /\ poller[q].answer = FailureAnswer)
               => resp'[poller[q].id] = [answer |-> FailureAnswer, finish |-> TRUE]
       /\ \A t \in TaskIds :
            RunStreamFailed(tasks[t])
               => /\ worker'[t] = "exit"
                  /\ tasks'[t].Content = tasks[t].Content]_vars

(* a poll of a failed task has returned the failure message, finished *)
C17_Witness ==
    \E t \in TaskIds :
       /\ t \in registry
       /\ worker[t] = "exit"
       /\ resp[t] = [answer |-> FailureAnswer, finish |-> TRUE]

-----------------------------------------------------------------------------
(* Claims about the StreamManager-based handler (SpecStream) *)

(* C5: the response in which HandleStreamRefresh reports finish=true for a
   stream carries the full text its goroutine accumulated from the
   stream's content events. *)
C5_FinishCarriesFullText ==
    [][\A q \in Pollers :
         (RefreshReply(q) /\ sresp'[refresher[q].id].finish)
            => sresp'[refresher[q].id].answer = sworker[refresher[q].id].responseText]_vars

(* C18: once HandleStreamRefresh has answered a poll of a stream with
   finish=true, every later answer to a poll of the same stream id
   reports finish=true as well. *)
C18_FinishedIsStable ==
    [][\A i \in StreamIds : sresp[i].finish => sresp'[i].finish]_vars

-----------------------------------------------------------------------------
(* Claims about MCPHealthManager (SpecHealth, SpecHealthFair) *)

RECURSIVE Pow2(_)
Pow2(n) == IF n <= 0 THEN 1 ELSE 2 * Pow2(n - 1)

Min2(a, b) == IF a < b THEN a ELSE b

(* C8 as stated: after N failed attempts of one sequence (N < 10) the wait
   before attempt N+1 is min(1s * 2^N, 30s). *)
C8_BackoffAsStated ==
    [][\A l \in LoopIds :
         LoopAttempt(l, FALSE) /\ loops'[l].retryCount < maxRetries
            => loops[l].backoff
                  = Min2(initialBackoff * Pow2(loops'[l].retryCount), maxBackoff)]_vars

(* C8: after N failed attempts of one sequence (1 <= N < 10) the wait
   before attempt N+1 is 1s * 2^min(N-1, 5): 1, 2, 4, 8, 16 seconds and 32
   seconds from the sixth failure on. *)
C8_BackoffWait ==
    [][\A l \in LoopIds :
         LoopAttempt(l, FALSE) /\ loops'[l].retryCount < maxRetries
            => loops[l].backoff
                  = initialBackoff * Pow2(Min2(loops'[l].retryCount - 1, 5))]_vars

(* a sequence whose seventh attempt failed and that has slept for it *)
C8_Witness ==
    \E l \in LoopIds :
       loops[l].pc = "head" /\ loops[l].retryCount = 7 /\ loops[l].backoff = 32

(* a sequence used up its retries and left the manager unhealthy *)
Exhausted ==
    /\ ~hm.isHealthy
    /\ ~hm.stopped
    /\ \E l \in LoopIds : loops[l].pc = "gaveup"
    /\ \A l \in LoopIds : loops[l].pc \in LoopEnded

(* C9: once a sequence has used up its 10 attempts and left the manager
   unhealthy, the next failure detection (a failed probe of
   performHealthCheck, a failed ListTools or CallTool) starts a new
   reconnect sequence. *)
C9_FailureRestartsSequence ==
    [][(/\ Exhausted
        /\ \/ performHealthCheck(FALSE)
           \/ \E c \in Callers : ServerCall(c, FALSE) /\ rcall[c].op \in ToolOps)
       => \E l \in LoopIds : loops[l].pc \in LoopEnded /\ loops'[l].pc = "head"]_vars

(* C10: GetServer returns the current server at once when the manager is
   healthy, and a caller that has to wait in the select leaves it again,
   whatever the reconnect loops and Stop do (a panic ends the process and
   its callers with it). *)
C10_GetServerReturns ==
    /\ [][\A c \in Callers :
            (rcall[c].pc = "idle" /\ rcall'[c].pc \notin {"idle", "panic"} /\ hm.isHealthy)
               => (rcall'[c].pc = "call" /\ rcall'[c].server = hm.server)]_vars
    /\ \A c \in Callers : (rcall[c].pc = "wait") ~> (rcall[c].pc # "wait" \/ Crashed)

(* a caller waits while no signal is buffered, nothing is stopped and the
   last reconnect loop gave up: only the timer can release it *)
C10_Witness ==
    \E c \in Callers :
       /\ rcall[c].pc = "wait"
       /\ hm.reconnectCh = 0
       /\ Exhausted

(* C11: when a reconnect sequence succeeds while callers are blocked in
   GetServer, each blocked caller returns the new server: so each of them
   has a signal to receive when the loop has notified (without one a
   blocked caller leaves the select only with an error). *)
C11_BlockedCallersSignalled ==
    [][\A l \in LoopIds :
         (LoopNotify(l) /\ ~hm.stopped)
            => Cardinality({c \in Callers : rcall[c].pc = "wait"}) <= hm'.reconnectCh]_vars

-----------------------------------------------------------------------------
(* Further claims about SessionMCPManager (SpecMCP) *)

(* a step that tears the connection down: Close, or an ensureConnection
   that finds the connection expired or dead *)
TeardownStep ==
    \/ \E p \in Procs : Close(p)
    \/ /\ ensureBranch(mgr, linkOk) \in {"expired", "dead"}
       /\ \E p \in Procs : \E up \in BOOLEAN :
             CallToolEnsure(p, up) \/ ListToolsEnsure(p, up) \/ InitializeEnsure(p, up)

(* C12: between two teardowns, of the successful CallTool invocations with
   one name and arguments that do not overlap only the first reaches the
   server: a completing invocation leaves its response cached, a cached
   response stays until a teardown, and an invocation that finds it returns
   it without calling ensureConnection or the server. *)
C12_CachedCallsSkipServer ==
    [][/\ \A p \in Procs :
            CallToolStore(p)
               => /\ call'[p].response # NoResp
                  /\ mgr'.callCache[call[p].id] = call'[p].response
       /\ \A id \in CallIDs :
            (mgr.callCache[id] # NoResp /\ mgr'.callCache[id] # mgr.callCache[id])
               => TeardownStep
       /\ \A p \in Procs : \A n \in ToolNames, a \in ArgVals :
            (CallToolBegin(p, n, a) /\ mgr.callCache[generateCallID(n, a)] # NoResp)
               => /\ call'[p].pc = "idle"
                  /\ call'[p].response = mgr.callCache[generateCallID(n, a)]
                  /\ UNCHANGED <<mgr, linkOk, nextResp>>]_vars

(* two goroutines hold the same response after one single server call:
   the second invocation was served from the cache *)
C12_Witness ==
    \E p, q \in Procs :
       /\ p # q
       /\ call[p].pc = "idle" /\ call[q].pc = "idle"
       /\ call[p].op = "CallTool" /\ call[q].op = "CallTool"
       /\ call[p].response # NoResp
       /\ call[p].response = call[q].response
       /\ mgr.callCache[call[p].id] = call[p].response
       /\ nextResp = 2

(* C13: in the variants without a cache every CallTool that obtained a
   connection calls the server once and returns the response of that very
   call: the response is new when the server hands it over, and the one
   returned is that one and is held by no other invocation. *)
C13_NoCacheFreshResponse ==
    [][\A p \in Procs :
         /\ (call[p].pc = "call" /\ call[p].op = "CallTool" /\ call'[p].pc # "call")
              => \/ /\ call'[p].pc = "touch"
                    /\ call'[p].response = nextResp
                    /\ nextResp' = nextResp + 1
                 \/ /\ call'[p].pc = "idle" /\ call'[p].err
                    /\ call'[p].response = NoResp
                    /\ nextResp' = nextResp
         /\ (call[p].pc = "touch" /\ call'[p].pc # "touch")
              => /\ call'[p].pc = "idle" /\ ~call'[p].err
                 /\ call'[p].response = call[p].response
                 /\ call'[p].response # NoResp
                 /\ nextResp' = nextResp
                 /\ \A q \in Procs \ {p} : call'[q].response # call'[p].response]_vars

(* two invocations with the same name and arguments have returned, each
   with the response of its own server call *)
C13_Witness ==
    \E p, q \in Procs :
       /\ p # q
       /\ call[p].pc = "idle" /\ call[q].pc = "idle"
       /\ call[p].op = "CallTool" /\ call[q].op = "CallTool"
       /\ call[p].id = call[q].id
       /\ call[p].response # NoResp /\ call[q].response # NoResp
       /\ call[p].response # call[q].response


(* C25: a reconnect attempt that succeeded leaves the manager's flag as
   it is; the loop then stores the new server, a handle nobody else
   holds, still without touching the flag, and only after that sets the
   flag, leaving the stored server in place; the server field changes in
   no other step; a GetServer that finds the flag set returns the server
   stored at that moment. *)
C25_StoreBeforeHealthy ==
    [][/\ \A l \in LoopIds :
            /\ LoopAttempt(l, TRUE)
                  => /\ hm' = hm
                     /\ loops'[l].pc = "swap"
                     /\ loops'[l].newServer \notin ServersInUse \cup {NoServer}
            /\ LoopSwap(l)
                  => /\ hm'.server = loops[l].newServer
                     /\ hm'.isHealthy = hm.isHealthy
                     /\ loops'[l].pc = "flag"
            /\ LoopSetHealthy(l)
                  => /\ loops[l].pc = "flag"
                     /\ hm'.isHealthy
                     /\ hm'.server = hm.server
       /\ hm'.server # hm.server => \E l \in LoopIds : LoopSwap(l)
       /\ \A c \in Callers :
            (rcall[c].pc \in {"idle", "wait"} /\ rcall'[c].pc = "call")
               => hm.isHealthy /\ rcall'[c].server = hm.server]_vars

(* a reconnect has stored server 2 and set the flag, and a caller that
   then asked for the server holds server 2 *)
C25_Witness ==
    /\ hm.isHealthy /\ hm.server = 2
    /\ \E l \in LoopIds : loops[l].pc = "notify"
    /\ \E c \in Callers : rcall[c].pc = "call" /\ rcall[c].server = 2

(* C26: a reconnect sequence makes an attempt only while fewer than 10
   attempts of it have failed and the manager is neither healthy nor
   stopped; at the head of its loop with 10 failed attempts, or with the
   manager healthy or stopped, the only step it takes is to end. *)
C26_AtMostTenAttempts ==
    [][\A l \in LoopIds :
         /\ (\E ok \in BOOLEAN : LoopAttempt(l, ok))
               => /\ loops[l].retryCount < maxRetries
                  /\ ~hm.isHealthy /\ ~hm.stopped
         /\ loops'[l].retryCount <= maxRetries
         /\ (/\ loops[l].pc = "head"
             /\ loops[l].retryCount >= maxRetries \/ hm.isHealthy \/ hm.stopped
             /\ loops'[l] # loops[l])
               => loops'[l].pc \in LoopEnded]_vars

(* a sequence is at its tenth attempt: nine have failed *)
C26_Witness ==
    \E l \in LoopIds :
       /\ loops[l].pc = "head" /\ loops[l].retryCount = maxRetries - 1
       /\ ~hm.isHealthy /\ ~hm.stopped

-----------------------------------------------------------------------------
(* Claims about the WebhookHandler (SpecHook) *)

(* C20: the MessageHandler is called at most once for a message id,
   however many POSTs carry that id and however they overlap. *)
C20_DispatchedAtMostOnce == \A m \in MsgIds : dispatched[m] <= 1

-----------------------------------------------------------------------------
(* Claims about the StreamBuffer (SpecBuffer) *)

(* C16: in consuming mode the outputs of the ReadIncrement calls,
   concatenated in call order, are a prefix of the Push arguments
   concatenated in push order and are all of them whenever the buffer is
   drained; the cursor never decreases and never exceeds the number of
   chunks. *)
C16_ConsumingReadsReproducePushes ==
    [][/\ sb'.cursor >= sb.cursor
       /\ sb'.cursor <= Len(sb'.chunks)
       /\ IsPrefix(readOut', pushed')
       /\ IsDrained(sb') => readOut' = pushed'
       /\ ReadIncrement => readOut' = pushed]_vars

(* the producer pushed its texts and is done, and the reads have drained
   the buffer *)
C16_Witness ==
    /\ Len(sb.chunks) = MaxPush
    /\ sb.producerDone
    /\ IsDrained(sb)
    /\ readOut = <<1, 1, 1, 2>>

-----------------------------------------------------------------------------
(* Claims about the SessionMCPManager without call cache (SpecNoCache) *)

(* C21: a connection on which a CallTool, ListTools or Initialize is still
   to be executed has not been closed by the manager. *)
C21_NoCallOnClosedConnection ==
    \A p \in Procs : call[p].pc = "call" => call[p].server \notin mgr.closed

-----------------------------------------------------------------------------
(* Further claims about MCPHealthManager (SpecHealth) *)

(* C27: the sleep between two consecutive attempts of a reconnect sequence
   never exceeds maxBackoff. *)
C27_SleepWithinMaxBackoff ==
    [][\A l \in LoopIds :
         (LoopAttempt(l, FALSE) /\ loops'[l].retryCount < maxRetries)
            => loops[l].backoff <= maxBackoff]_vars

(* C28: a GetServer that found the manager unhealthy returns an error only
   through the timer of its select or when the manager was stopped: not by
   receiving a signal from reconnectCh. *)
C28_ErrorOnlyAfterWaitOrStop ==
    [][\A c \in Callers :
         (GetServerWait(c) /\ rcall'[c].pc = "idle")
            => (hm'.reconnectCh = hm.reconnectCh \/ hm.stopped)]_vars

(* the reconnectLoop goroutines that have not returned *)
ActiveLoops == {l \in LoopIds : loops[l].pc \notin LoopEnded}

(* C29: at most one reconnectLoop goroutine of the manager is active at
   any time. *)
C29_OneReconnectSequence == Cardinality(ActiveLoops) <= 1

(* C30: once Stop has been called no reconnectLoop sends on reconnectCh
   and the health-check loop begins no further probe. *)
C30_QuietAfterStop ==
    [][/\ \A l \in LoopIds : LoopNotify(l) => ~hm.stopped
       /\ HealthCheckTick => ~hm.stopped]_vars


-----------------------------------------------------------------------------
(* Further claims about the TaskCacheManager handler (SpecTask) *)

(* C31: a caller that keeps polling a task is told finish=true after at
   most MaxSteps polls, whatever the worker does: every GetAnswer on a
   registered task that is not finished and below MaxSteps advances the
   step counter by one, no step lowers the counter, and a poll reports
   finish=false only for a registered task whose counter is below
   MaxSteps. *)
C31_FinishWithinMaxSteps ==
    [][/\ \A q \in Pollers :
            LET id == poller[q].id
            IN /\ (GetAnswer(q) /\ id \in registry /\ ~tasks[id].IsFinished
                     /\ tasks[id].CurrentStep < MaxSteps)
                  => tasks'[id].CurrentStep = tasks[id].CurrentStep + 1
               /\ (IsTaskFinish(q) /\ ~resp'[id].finish)
                  => (id \in registry /\ tasks[id].CurrentStep < MaxSteps)
       /\ \A t \in TaskIds :
            t \in registry => tasks'[t].CurrentStep >= tasks[t].CurrentStep]_vars

(* the MaxSteps-th poll of a task whose worker is still reading the stream
   and has delivered nothing reported finish=true *)
C31_Witness ==
    \E t \in TaskIds :
        /\ t \in registry
        /\ worker[t] = "stream"
        /\ ~tasks[t].IsFinished
        /\ tasks[t].IsProcessing
        /\ Len(tasks[t].Content) = 0
        /\ tasks[t].CurrentStep = MaxSteps
        /\ resp[t].finish


(* C32: a poll that reports finish=true for a task leaves no entry of that
   task in the registry. *)
C32_FinishedTaskRemoved ==
    [][\A q \in Pollers :
          (IsTaskFinish(q) /\ resp'[poller[q].id].finish)
          => poller[q].id \notin registry']_vars


-----------------------------------------------------------------------------
(* Further claims about the StreamManager-based handler (SpecStream) *)

(* C33: every stream that cleanupExpiredStreams removes has either been
   idle for more than ExpiredTimeout minutes or has already been returned
   to a poller with finish=true. *)
C33_CleanupKeepsUndelivered ==
    [][cleanupExpiredStreams =>
          \A i \in streamMap \ streamMap' :
              \/ streams[i].sinceUpdate > ExpiredTimeout
              \/ sresp[i].finish]_vars


-----------------------------------------------------------------------------
(* Claims about StreamManager's locks (SpecLocks) *)

(* goroutine p holds, or is blocked waiting for, the mutex l *)
Holds(l, p) == l.w = p \/ p \in l.r
Wants(l, p) == p \in l.wait

HoldsAStreamLock(p) == \E i \in LockStreams : Holds(stLock[i], p) \/ Wants(stLock[i], p)

(* the goroutines inside a StreamManager method *)
BusyThreads == {p \in LockThreads : lt[p].pc # "idle"}

(* some goroutine inside a method can take its next step *)
SomeBusyThreadRuns ==
    BusyThreads # {} => \E p \in BusyThreads : ENABLED LockStep(p)

(* a step in which p takes, or starts to wait for, sm.mutex is taken by a
   p that neither holds nor waits for the mutex of any stream *)
ManagerLockFirst ==
    \A p \in LockThreads :
        ((Holds(smLock', p) \/ Wants(smLock', p)) /\ ~(Holds(smLock, p) \/ Wants(smLock, p)))
        => ~HoldsAStreamLock(p)

(* C34: the StreamManager methods never deadlock, and a goroutine that
   holds sm.mutex together with the mutex of a stream took sm.mutex
   first. *)
C34_NoDeadlockManagerFirst == []SomeBusyThreadRuns /\ [][ManagerLockFirst]_vars

(* a goroutine holds sm.mutex and the mutex of a stream while a second one
   is blocked on sm.mutex and a third on the mutex of that stream *)
C34_Witness ==
    \E p, q, r \in LockThreads : \E i \in LockStreams :
        /\ p # q /\ p # r /\ q # r
        /\ Holds(smLock, p)
        /\ Holds(stLock[i], p)
        /\ Wants(smLock, q)
        /\ Wants(stLock[i], r)


-----------------------------------------------------------------------------
(* Further claims about the WebhookHandler (SpecHook) *)

(* the request passed every check of handleMessage *)
Verified(req) ==
    req.params /\ req.body /\ req.sig /\ req.dec = "ok" /\ req.parse

ErrorStatus == {"400", "401", "500"}

(* C35: the dedup cache is written and the MessageHandler called only by
   a POST whose signature verified and whose payload decrypted and
   parsed; an arriving POST either passes every check or returns with an
   error status, changing neither the cache nor the handler's calls. *)
C35_HandlerOnlyAfterVerification ==
    [][\A h \in Posts :
         /\ PostRecord(h) => Verified(post[h].req)
         /\ \A r \in {"response", "success", "error"} :
               PostHandle(h, r) => Verified(post[h].req)
         /\ (post[h].pc = "idle" /\ post'[h] # post[h])
            => \/ /\ post'[h].pc = "check"
                  /\ Verified(post'[h].req)
               \/ /\ post'[h].pc = "idle"
                  /\ post'[h].reply \in ErrorStatus
                  /\ msgCache' = msgCache
                  /\ dispatched' = dispatched]_vars

(* one POST was turned away with an error status, another was verified,
   recorded and handed to the MessageHandler *)
C35_Witness ==
    \E h, g \in Posts : \E m \in MsgIds :
        /\ post[h].pc = "idle" /\ post[h].reply \in ErrorStatus
        /\ post[g].pc = "idle" /\ post[g].reply = "response" /\ post[g].msg = m
        /\ dispatched[m] = 1
        /\ DOMAIN msgCache = {m}


(* C40: the dedup cache never holds more than cacheSize + 1 message
   ids. *)
C40_CacheBounded == Cardinality(DOMAIN msgCache) <= cacheSize + 1


-----------------------------------------------------------------------------
(* Claims about the ChatLogger (SpecLogger) *)

Occurs(e, s) == \E i \in 1..Len(s) : s[i] = e

FirstIndex(e, s) == CHOOSE i \in 1..Len(s) : s[i] = e /\ \A j \in 1..(i - 1) : s[j] # e

(* C36: when Close has returned, every entry that LogMessage had accepted
   and counted before Close was called is in the conversation's writer,
   and these entries stand there in the order in which they were
   accepted. *)
C36_AcceptedEntriesWritten ==
    closer.pc = "done" =>
        /\ \A i \in 1..Len(closer.seen) : Occurs(closer.seen[i], written)
        /\ \A i, j \in 1..Len(closer.seen) :
              i < j => FirstIndex(closer.seen[i], written) < FirstIndex(closer.seen[j], written)

(* C37: no LogMessage call panics: none sends on logQueue after the
   channel has been closed. *)
C37_NoSendAfterClose == \A p \in Loggers : lg[p].pc # "panic"


(* no LogMessage call is between its send and its count *)
NoCallInProgress == \A p \in Loggers : lg[p].pc # "sent"

(* C39: whenever no LogMessage call is in progress, totalLogged +
   totalDropped is the number of LogMessage calls that have returned, and
   a step that drops an entry finds logQueue holding QueueCap entries. *)
C39_CountersAccountForCalls ==
    /\ [](NoCallInProgress => totalLogged + totalDropped = completed)
    /\ [][\A p \in Loggers :
             (LogMessageSelect(p) /\ lg'[p].pc = "idle")
             => (totalDropped' = totalDropped + 1 /\ Len(logQueue) = QueueCap)]_vars

(* with the queue full, one entry has been dropped and two accepted and
   counted, and no call is in progress *)
C39_Witness ==
    /\ NoCallInProgress
    /\ Len(logQueue) = QueueCap
    /\ totalDropped = 1
    /\ totalLogged = QueueCap
    /\ completed = QueueCap + 1


-----------------------------------------------------------------------------
(* Claims about LazyMCPServer (SpecLazy) *)

(* C38: LazyMCPServer keeps no connection between calls: a call whose
   connection is created opens exactly that one connection (a call whose
   connection cannot be created opens none and returns), a call that
   returns has closed the connection it opened, whether its operation
   succeeded or failed, and with no call in flight as many connections
   were closed as opened. *)
C38_NoConnectionBetweenCalls ==
    /\ []((\A p \in LazyCallers : lazy[p].pc = "idle")
            => (lzOpen = {} /\ lzOpened = lzClosed))
    /\ [][\A p \in LazyCallers :
             /\ (lazy[p].pc = "connect" /\ lazy'[p].pc = "operate")
                => (lzOpened' = lzOpened + 1 /\ lazy'[p].server \in lzOpen' \ lzOpen)
             /\ (lazy[p].pc = "connect" /\ lazy'[p].pc = "idle")
                => (lzOpened' = lzOpened /\ lazy'[p].err)
             /\ (lazy[p].pc # "idle" /\ lazy'[p].pc = "idle")
                => lazy[p].server \notin lzOpen'
             /\ (lazy[p].server # NoConn /\ lazy[p].pc # "idle")
                => (lzOpened' = lzOpened \/ lazy'[p] = lazy[p])]_vars

(* a call whose operation failed and a call whose operation succeeded have
   both returned, and both connections are closed *)
C38_Witness ==
    \E p, q \in LazyCallers :
        /\ p # q
        /\ lazy[p].pc = "idle" /\ lazy[p].server # NoConn /\ lazy[p].err
        /\ lazy[q].pc = "idle" /\ lazy[q].server # NoConn /\ ~lazy[q].err
        /\ lzOpened = 2 /\ lzClosed = 2 /\ lzOpen = {}

====
